---- MODULE Spec2Model ----
(***************************************************************************)
(* The OIDC authentication core of konflux-devlake-mcp:                    *)
(*   server/middleware/oidc_auth.py      OIDCAuthenticator                 *)
(*   server/middleware/auth_middleware.py AuthMiddleware                   *)
(*                                                                         *)
(* Requests run as asyncio tasks on one event loop: a task runs without    *)
(* interruption until it awaits something that is not ready (a provider    *)
(* call, a contended asyncio.Lock).  `running` is the task that owns the   *)
(* loop; every other task is suspended at an await.                        *)
(***************************************************************************)
EXTENDS Integers, Sequences, FiniteSets, TLC

(* ------------------------------ bounds --------------------------------- *)
\* The clock (time.time()) runs over 0..MaxTime.
MaxTime == 2
MaxChunks == 4
\* The clock runs over 0..MaxFairTime while two requests share a fair loop.
MaxFairTime == 1

(* ------------------------------ strings -------------------------------- *)
\* A path is the sequence of its characters.
StartsWith(s, prefix) ==
    /\ Len(prefix) <= Len(s)
    /\ SubSeq(s, 1, Len(prefix)) = prefix

P_health == <<"/", "h", "e", "a", "l", "t", "h">>
P_security == <<"/", "s", "e", "c", "u", "r", "i", "t", "y">>
P_health_live == P_health \o <<"/", "l", "i", "v", "e">>
P_mcp == <<"/", "m", "c", "p">>
P_heal == <<"/", "h", "e", "a", "l">>
P_healthz == P_health \o <<"z">>
P_health_star == P_health \o <<"*">>
P_api_health == <<"/", "a", "p", "i">> \o P_health
P_mcp_tools == P_mcp \o <<"/", "t", "o", "o", "l", "s">>

\* An Authorization header value is a sequence of chunks: " " is a run of
\* whitespace, every other chunk a maximal run of non-whitespace characters.
WS == " "

\* str.split(): the non-whitespace runs, in order.
Split(text) == SelectSeq(text, LAMBDA c : c # WS)

\* str.lower() on the scheme words that occur.
Lower(w) ==
    CASE w \in {"Bearer", "BEARER", "bearer", "bEaReR"} -> "bearer"
      [] w \in {"Basic", "basic"} -> "basic"
      [] OTHER -> w

\* A typ value is text, a sequence of characters.  str.upper() maps each
\* lower-case letter to its capital and leaves the other characters.
LowerCase ==
    <<"a", "b", "c", "d", "e", "f", "g", "h", "i", "j", "k", "l", "m",
      "n", "o", "p", "q", "r", "s", "t", "u", "v", "w", "x", "y", "z">>
UpperCase ==
    <<"A", "B", "C", "D", "E", "F", "G", "H", "I", "J", "K", "L", "M",
      "N", "O", "P", "Q", "R", "S", "T", "U", "V", "W", "X", "Y", "Z">>
Upper(w) ==
    [i \in 1..Len(w) |->
        IF \E k \in 1..Len(LowerCase) : LowerCase[k] = w[i]
        THEN UpperCase[CHOOSE k \in 1..Len(LowerCase) : LowerCase[k] = w[i]]
        ELSE w[i]]

\* `sub in text` on str.
Contains(text, sub) ==
    \E i \in 0..(Len(text) - Len(sub)) : SubSeq(text, i + 1, i + Len(sub)) = sub

\* The typ spellings that occur.
T_JWT == <<"J", "W", "T">>
T_Bearer == <<"B", "e", "a", "r", "e", "r">>
T_Offline == <<"O", "f", "f", "l", "i", "n", "e">>
T_Refresh == <<"R", "e", "f", "r", "e", "s", "h">>
T_RT == <<"R", "T">>
T_ID == <<"I", "D">>
T_refresh_jwt == <<"r", "e", "f", "r", "e", "s", "h", "+", "j", "w", "t">>
T_bearer_lc == <<"b", "e", "a", "r", "e", "r">>
T_offline_lc == <<"o", "f", "f", "l", "i", "n", "e">>
T_refresh_lc == <<"r", "e", "f", "r", "e", "s", "h">>
T_rt_lc == <<"r", "t">>

(* --------------------------- configuration ----------------------------- *)
ISSUER == "https://sso.example.com/realms/test"
CLIENT == "mcp-server"

\* OIDCConfig with its defaults (skip_paths, allowed_algorithms).
DefaultConfig ==
    [enabled |-> FALSE,
     issuer_url |-> "",
     client_id |-> "",
     required_scopes |-> <<>>,
     jwks_cache_ttl |-> 3600,
     skip_paths |-> <<P_health, P_security>>,
     allowed_algorithms |-> {"RS256"},
     offline_token_enabled |-> FALSE,
     access_token_cache_buffer |-> 60]

ActiveConfig ==
    [DefaultConfig EXCEPT !.enabled = TRUE, !.issuer_url = ISSUER,
                          !.client_id = CLIENT,
                          !.required_scopes = <<"mcp">>,
                          !.jwks_cache_ttl = 2,
                          !.access_token_cache_buffer = 1]

\* The configurations an authenticator is constructed with.
Configs ==
    { DefaultConfig,
      [ActiveConfig EXCEPT !.issuer_url = ""],
      [ActiveConfig EXCEPT !.client_id = ""],
      ActiveConfig,
      [ActiveConfig EXCEPT !.offline_token_enabled = TRUE] }

(* ------------------------------ tokens --------------------------------- *)
\* What the code can observe of a bearer token: the number of dot-separated
\* segments, whether header and payload decode, their claims, and the key
\* that signed it.  hdr_ok: jwt.get_unverified_header succeeds (the three
\* segments are base64url and the header is a JSON object); pl_ok: the
\* payload is a JSON object.  A typ that is absent reads as "" (the default
\* of .get); hdr_typ_str and pl_typ_str are FALSE for a typ that is present
\* but not a JSON string (null, a number).  scope is the scope claim as
\* chunks, like a header value; scope_is_str is FALSE for a scope claim that
\* is not a string.
BaseToken ==
    [segs |-> 3, hdr_ok |-> TRUE, hdr_typ |-> T_JWT, hdr_typ_str |-> TRUE, kid |-> "k1",
     alg |-> "RS256", pl_ok |-> TRUE, pl_typ |-> T_Bearer, pl_typ_str |-> TRUE,
     signed_by |-> "k1", exp |-> 100, iss |-> ISSUER, aud |-> CLIENT,
     sub |-> "u1", preferred_username |-> "alice", username |-> "None",
     email |-> "alice@example.com", groups |-> <<"dev">>,
     realm_roles |-> <<>>, scope |-> <<"openid", WS, "mcp">>, scope_is_str |-> TRUE]

OpaqueToken ==
    [BaseToken EXCEPT !.segs = 1, !.hdr_ok = FALSE, !.pl_ok = FALSE,
                      !.hdr_typ = <<>>, !.pl_typ = <<>>]

TokenNames == {"atGood", "atRoles", "atNoScope", "atExpiring", "off1", "off2"}

TokenInfo ==
    [n \in TokenNames |->
        CASE n = "atGood" -> BaseToken
          [] n = "atRoles" ->
                [BaseToken EXCEPT !.groups = <<>>, !.realm_roles = <<"user", "admin">>,
                                  !.preferred_username = "None", !.username = "bob",
                                  !.sub = "u2", !.email = "None"]
          [] n = "atNoScope" -> [BaseToken EXCEPT !.scope = <<"openid">>]
          [] n = "atExpiring" -> [BaseToken EXCEPT !.exp = 2]
          [] n = "off1" -> OpaqueToken
          [] n = "off2" -> [BaseToken EXCEPT !.pl_typ = T_Offline, !.sub = "u9"]]

\* The cache key, were the token itself used.
_hash_token_Raw(token) == token

\* hashlib.sha256(token.encode()).hexdigest(): distinct tokens, distinct digests.
_hash_token(token) ==
    CASE token = "off1" -> "sha256:5f1c"
      [] token = "off2" -> "sha256:a07e"
      [] token = "atGood" -> "sha256:19bd"
      [] token = "atRoles" -> "sha256:c3e2"
      [] token = "atNoScope" -> "sha256:77a0"
      [] token = "atExpiring" -> "sha256:e410"

Hashes == { _hash_token(n) : n \in TokenNames }

(* --------------------------- provider bodies --------------------------- *)
\* Parsed 2xx bodies of the discovery endpoint.  "D_list" is JSON that is
\* not an object.
DiscDocs == {"D_full", "D_nojwks", "D_notoken", "D_list"}
IsDict(doc) == doc \notin {"D_list", "K_list", "T_list", "None"}
HasJwksUri(doc) == doc \in {"D_full", "D_notoken"}
HasTokenEndpoint(doc) == doc \in {"D_full", "D_nojwks"}

\* Parsed 2xx bodies of the JWKS endpoint: two key sets (before and after a
\* rotation) and a JSON body that is not an object.
JwksDocs == {"K1", "K2", "K_list"}
JwksKeys(doc) ==
    CASE doc = "K1" -> << [kid |-> "k1", alg |-> "RS256", kty |-> "RSA"] >>
      [] doc = "K2" -> << [kid |-> "k2", alg |-> "RS256", kty |-> "RSA"] >>
      [] OTHER -> <<>>

\* Parsed responses of the token endpoint.  kind: "status" (non-2xx), "net"
\* (unreachable or timed out), "badjson" (2xx, body not JSON), "list" (2xx,
\* JSON not an object), "dict".  expires: "absent", "int" or "str" says how
\* expires_in appears in the body.
TokenResponses ==
    { [kind |-> k, access_token |-> "None", expires |-> "absent", expires_in |-> 0] :
        k \in {"status", "net", "badjson", "list", "dict"} }
    \cup
    { [kind |-> "dict", access_token |-> "atGood", expires |-> "int", expires_in |-> 2],
      [kind |-> "dict", access_token |-> "atExpiring", expires |-> "int", expires_in |-> 3],
      [kind |-> "dict", access_token |-> "atGood", expires |-> "absent", expires_in |-> 0],
      [kind |-> "dict", access_token |-> "atGood", expires |-> "str", expires_in |-> 0] }

(* ------------------------------ AuthResult ----------------------------- *)
Err(msg, detail) == [msg |-> msg, detail |-> detail]
NoError == Err("None", {})

\* AuthResult(authenticated=False, error=..., status_code=...): every other
\* field keeps its dataclass default.
Fail(error, status) ==
    [authenticated |-> FALSE, user_id |-> "None", username |-> "None",
     email |-> "None", groups |-> <<>>, scopes |-> <<>>,
     error |-> error, status_code |-> status]

\* The local `result` before authenticate_request has returned.
NoResult ==
    [authenticated |-> FALSE, user_id |-> "None", username |-> "None",
     email |-> "None", groups |-> <<>>, scopes |-> <<>>,
     error |-> NoError, status_code |-> 0]

SeqToSet(s) == { s[i] : i \in 1..Len(s) }

(* --------------------------- header parsing ---------------------------- *)
\* Header parsing, were the scheme compared as written.
_extract_token_from_header_CaseSensitive(auth_header) ==
    LET parts == Split(auth_header) IN
    IF auth_header = <<>>
    THEN [token |-> "None", error |-> "Authorization header is required"]
    ELSE IF Len(parts) # 2
    THEN [token |-> "None", error |-> "Invalid Authorization header format"]
    ELSE IF parts[1] # "Bearer"
    THEN [token |-> "None", error |-> "Authorization scheme must be Bearer"]
    ELSE [token |-> parts[2], error |-> "None"]

_extract_token_from_header(auth_header) ==
    LET parts == Split(auth_header) IN
    IF auth_header = <<>>
    THEN [token |-> "None", error |-> "Authorization header is required"]
    ELSE IF Len(parts) # 2
    THEN [token |-> "None", error |-> "Invalid Authorization header format"]
    ELSE IF Lower(parts[1]) # "bearer"
    THEN [token |-> "None", error |-> "Authorization scheme must be Bearer"]
    ELSE [token |-> parts[2], error |-> "None"]

(* --------------------------- token classifier -------------------------- *)
\* `"REFRESH" in header_typ or header_typ == "RT"`
HeaderSaysRefresh(header_typ) ==
    Contains(header_typ, Upper(T_Refresh)) \/ header_typ = T_RT

\* The classifier, were the header typ consulted before the payload typ.
Classify_HeaderFirst(ti, offline_enabled) ==
    LET payload_says == ti.hdr_ok /\ ti.pl_ok /\ ti.pl_typ_str
        payload_typ == Upper(ti.pl_typ)
        header_typ == Upper(ti.hdr_typ)
    IN  IF ti.segs # 3 THEN FALSE
        ELSE IF ~ti.hdr_ok \/ ~ti.hdr_typ_str THEN FALSE
        ELSE IF HeaderSaysRefresh(header_typ) THEN FALSE
        ELSE IF payload_says /\ payload_typ \in {Upper(T_Offline), Upper(T_Refresh)} THEN FALSE
        ELSE IF payload_says /\ payload_typ = Upper(T_Bearer) THEN TRUE
        ELSE IF offline_enabled THEN FALSE
        ELSE TRUE

\* The classifier, were the default an access token whatever
\* offline_token_enabled says.
Classify_DefaultAccess(ti, offline_enabled) ==
    LET payload_says == ti.hdr_ok /\ ti.pl_ok /\ ti.pl_typ_str
        payload_typ == Upper(ti.pl_typ)
        header_typ == Upper(ti.hdr_typ)
    IN  IF ti.segs # 3 THEN FALSE
        ELSE IF payload_says /\ payload_typ \in {Upper(T_Offline), Upper(T_Refresh)} THEN FALSE
        ELSE IF payload_says /\ payload_typ = Upper(T_Bearer) THEN TRUE
        ELSE IF ~ti.hdr_ok \/ ~ti.hdr_typ_str THEN FALSE
        ELSE IF HeaderSaysRefresh(header_typ) THEN FALSE
        ELSE TRUE

\* The classifier, were a token whose header does not decode left to the
\* default.
Classify_UndecodableToDefault(ti, offline_enabled) ==
    LET payload_says == ti.hdr_ok /\ ti.pl_ok /\ ti.pl_typ_str
        payload_typ == Upper(ti.pl_typ)
        header_typ == Upper(ti.hdr_typ)
    IN  IF ti.segs # 3 THEN FALSE
        ELSE IF payload_says /\ payload_typ \in {Upper(T_Offline), Upper(T_Refresh)} THEN FALSE
        ELSE IF payload_says /\ payload_typ = Upper(T_Bearer) THEN TRUE
        ELSE IF ti.hdr_ok /\ ti.hdr_typ_str /\ HeaderSaysRefresh(header_typ) THEN FALSE
        ELSE IF offline_enabled THEN FALSE
        ELSE TRUE

\* _is_access_token on what it reads of the token; offline_enabled is
\* self.config.offline_token_enabled.  payload_says: jwt.decode without
\* verification returned a payload and payload.get("typ", "").upper() did not
\* raise; otherwise the inner except passes on to the header.  An undecodable
\* header, or a header typ that is not a string, raises into the outer except,
\* which returns False.
Classify(ti, offline_enabled) ==
    LET payload_says == ti.hdr_ok /\ ti.pl_ok /\ ti.pl_typ_str
        payload_typ == Upper(ti.pl_typ)
        header_typ == Upper(ti.hdr_typ)
    IN  IF ti.segs # 3 THEN FALSE
        ELSE IF payload_says /\ payload_typ \in {Upper(T_Offline), Upper(T_Refresh)} THEN FALSE
        ELSE IF payload_says /\ payload_typ = Upper(T_Bearer) THEN TRUE
        ELSE IF ~ti.hdr_ok \/ ~ti.hdr_typ_str THEN FALSE
        ELSE IF HeaderSaysRefresh(header_typ) THEN FALSE
        ELSE IF offline_enabled THEN FALSE
        ELSE TRUE

(* ----------------------------- validation ------------------------------ *)
\* _get_signing_key_from_jwt: the index in jwks["keys"] of the key chosen
\* (the first with the token's kid, else the first of a matching algorithm),
\* 0 when PyJWKError("No matching key found") is raised.
SigningKey(ti, keys) ==
    LET byKid == { i \in 1..Len(keys) : keys[i].kid = ti.kid }
        byAlg == { i \in 1..Len(keys) :
                     \/ keys[i].alg = ti.alg
                     \/ keys[i].kty = "RSA" /\ ti.alg \in {"RS256", "RS384", "RS512"} }
        First(idx) == CHOOSE i \in idx : \A j \in idx : i <= j
    IN  IF byKid # {} THEN First(byKid)
        ELSE IF byAlg # {} THEN First(byAlg)
        ELSE 0

\* The claims of a verified payload turned into the AuthResult, were one
\* granted scope enough.
FromPayload_OneScopeSuffices(ti, c) ==
    LET username == IF ti.preferred_username # "None" THEN ti.preferred_username
                    ELSE ti.username
        groups == IF ti.groups # <<>> THEN ti.groups ELSE ti.realm_roles
        scopes == IF ti.scope_is_str THEN Split(ti.scope) ELSE <<>>
        missing_scopes == SeqToSet(c.required_scopes) \ SeqToSet(scopes)
    IN  IF c.required_scopes # <<>> /\ missing_scopes = SeqToSet(c.required_scopes)
        THEN Fail(Err("Missing required scopes", missing_scopes), 403)
        ELSE [authenticated |-> TRUE, user_id |-> ti.sub, username |-> username,
              email |-> ti.email, groups |-> groups, scopes |-> scopes,
              error |-> NoError, status_code |-> 200]

\* The claims of a verified payload turned into the AuthResult, were
\* status_code left to its dataclass default.
FromPayload_DefaultStatus(ti, c) ==
    LET username == IF ti.preferred_username # "None" THEN ti.preferred_username
                    ELSE ti.username
        groups == IF ti.groups # <<>> THEN ti.groups ELSE ti.realm_roles
        scopes == IF ti.scope_is_str THEN Split(ti.scope) ELSE <<>>
        missing_scopes == SeqToSet(c.required_scopes) \ SeqToSet(scopes)
    IN  IF c.required_scopes # <<>> /\ missing_scopes # {}
        THEN Fail(Err("Missing required scopes", missing_scopes), 403)
        ELSE [authenticated |-> TRUE, user_id |-> ti.sub, username |-> username,
              email |-> ti.email, groups |-> groups, scopes |-> scopes,
              error |-> NoError, status_code |-> 401]

\* The claims of a verified payload turned into the AuthResult of lines
\* 538-575.  c is the configuration.
FromPayload(ti, c) ==
    LET username == IF ti.preferred_username # "None" THEN ti.preferred_username
                    ELSE ti.username
        groups == IF ti.groups # <<>> THEN ti.groups ELSE ti.realm_roles
        scopes == IF ti.scope_is_str THEN Split(ti.scope) ELSE <<>>
        missing_scopes == SeqToSet(c.required_scopes) \ SeqToSet(scopes)
    IN  IF c.required_scopes # <<>> /\ missing_scopes # {}
        THEN Fail(Err("Missing required scopes", missing_scopes), 403)
        ELSE [authenticated |-> TRUE, user_id |-> ti.sub, username |-> username,
              email |-> ti.email, groups |-> groups, scopes |-> scopes,
              error |-> NoError, status_code |-> 200]

\* validate_token with the key set in hand, were a token without a usable
\* signing key answered as an unavailable service.
VerifyToken_KeyMissIsUnavailable(ti, jwks, t, c) ==
    LET keys == JwksKeys(jwks)
        k == SigningKey(ti, keys)
    IN  IF ~ti.hdr_ok THEN Fail(Err("Invalid token signature", {}), 401)
        ELSE IF ~IsDict(jwks) THEN Fail(Err("Internal authentication error", {}), 500)
        ELSE IF k = 0 THEN Fail(Err("Authentication service unavailable", {}), 503)
        ELSE IF ti.alg \notin c.allowed_algorithms
        THEN Fail(Err("Invalid token", {"The specified alg value is not allowed"}), 401)
        ELSE IF keys[k].kid # ti.signed_by
        THEN Fail(Err("Invalid token", {"Signature verification failed"}), 401)
        ELSE IF ~ti.pl_ok
        THEN Fail(Err("Invalid token", {"Invalid payload string"}), 401)
        ELSE IF ti.exp <= t THEN Fail(Err("Token has expired", {}), 401)
        ELSE IF ti.iss # c.issuer_url THEN Fail(Err("Invalid token issuer", {}), 401)
        ELSE IF ti.aud # c.client_id THEN Fail(Err("Invalid token audience", {}), 401)
        ELSE FromPayload(ti, c)

\* validate_token once the JWKS is at hand: key selection, jwt.decode with
\* signature, exp, iss and aud verified, then claim extraction.  t is the
\* clock when jwt.decode runs.
VerifyToken(ti, jwks, t, c) ==
    LET keys == JwksKeys(jwks)
        k == SigningKey(ti, keys)
    IN  IF ~ti.hdr_ok THEN Fail(Err("Invalid token signature", {}), 401)
        ELSE IF ~IsDict(jwks) THEN Fail(Err("Internal authentication error", {}), 500)
        ELSE IF k = 0 THEN Fail(Err("Invalid token signature", {}), 401)
        ELSE IF ti.alg \notin c.allowed_algorithms
        THEN Fail(Err("Invalid token", {"The specified alg value is not allowed"}), 401)
        ELSE IF keys[k].kid # ti.signed_by
        THEN Fail(Err("Invalid token", {"Signature verification failed"}), 401)
        ELSE IF ~ti.pl_ok
        THEN Fail(Err("Invalid token", {"Invalid payload string"}), 401)
        ELSE IF ti.exp <= t THEN Fail(Err("Token has expired", {}), 401)
        ELSE IF ti.iss # c.issuer_url THEN Fail(Err("Invalid token issuer", {}), 401)
        ELSE IF ti.aud # c.client_id THEN Fail(Err("Invalid token audience", {}), 401)
        ELSE FromPayload(ti, c)

(* ------------------------------ requests ------------------------------- *)
\* The raw Authorization header of the ASGI scope: bytes that decode as
\* UTF-8 to `text`, or bytes that do not decode.
Hdr(text) == [utf8 |-> TRUE, text |-> text]
HdrUndecodable == [utf8 |-> FALSE, text |-> <<>>]

Headers ==
    { Hdr(<<>>), Hdr(<<"Bearer">>), Hdr(<<"Basic", WS, "xyz">>),
      Hdr(<<"bearer", WS, "atGood">>), HdrUndecodable }
    \cup { Hdr(<<"Bearer", WS, n>>) : n \in TokenNames }

\* The ASGI scopes delivered to the middleware.
Requests ==
    { [type |-> "http", path |-> P_mcp, header |-> h] : h \in Headers }
    \cup
    { [type |-> ty, path |-> p, header |-> h] :
        ty \in {"http", "websocket"},
        p \in {P_health_live, P_security, P_heal, P_mcp},
        h \in {Hdr(<<>>), Hdr(<<"Bearer", WS, "atGood">>)} }

Reqs == {"r1", "r2"}
Hcs == {"h1"}
Tasks == Reqs \cup Hcs

(* ------------------------------- state --------------------------------- *)
VARIABLES
    cfg,                      \* OIDCAuthenticator.config
    now,                      \* time.time()
    running,                  \* the task that owns the event loop, or "none"
    pc,                       \* where each task stands
    req,                      \* the scope each request task was called with
    loc,                      \* the locals of each task
    _jwks_cache, _jwks_cache_time,
    _oidc_config_cache, _oidc_config_cache_time,
    _access_token_cache,
    _lock,                    \* asyncio.Lock guarding the JWKS cache
    _token_cache_lock,        \* asyncio.Lock guarding the access-token cache
    obs,                      \* what each task has done for its current request
    jwks_fetched_at,          \* history: _fetch_jwks's time in its last call that
                              \* returned a fetched key set, -1 before the first
    call,                     \* a direct call of _is_access_token: its argument
                              \* and, once it has returned, its value
    config_oidc               \* the OIDC settings the middleware was built from:
                              \* the OIDCConfig given to AuthMiddleware, or
                              \* config.oidc given to create_auth_middleware

caches == <<_jwks_cache, _jwks_cache_time, _oidc_config_cache,
            _oidc_config_cache_time, _access_token_cache>>
locks == <<_lock, _token_cache_lock>>
vars == <<cfg, now, running, pc, req, loc, caches, locks, obs, jwks_fetched_at, call,
         config_oidc>>

NoEntry == [present |-> FALSE, token |-> "None", expiry |-> 0]
FreeLock == [holder |-> "none", waiters |-> <<>>]

NoReq == [type |-> "none", path |-> <<>>, header |-> Hdr(<<>>)]

LocInit ==
    [tok |-> "None", hash |-> "None", t_jwks |-> 0, t_tok |-> 0, t_disc |-> 0,
     disc_ret |-> "none", doc |-> "None", exc |-> "none", jwks |-> "None",
     result |-> NoResult]

NoUser ==
    [present |-> FALSE, id |-> "None", username |-> "None", email |-> "None",
     groups |-> <<>>, scopes |-> <<>>]
NoResponse ==
    [status_code |-> 0, error |-> "None", message |-> NoError, www_authenticate |-> "None"]
NoRefresh == [seen |-> FALSE, at |-> 0, keys |-> "None"]
NoExchange == [seen |-> FALSE, at |-> 0, token |-> "None", expiry |-> 0]

ObsInit ==
    [outcome |-> "none",       \* forwarded | rejected | raised
     authCalls |-> 0,          \* calls of authenticate_request
     appCalls |-> 0,           \* calls of the downstream application
     respSent |-> 0,           \* rejection responses sent
     response |-> NoResponse,  \* the rejection sent
     appUser |-> NoUser,       \* scope["user"] when the application was called
     discReq |-> 0,            \* GETs of the discovery document
     jwksReq |-> 0,            \* GETs of the JWKS
     exReq |-> 0,              \* POSTs to the token endpoint
     exc |-> "none",           \* the exception that left __call__
     exc_in |-> "none",        \* where it was raised: middleware | authenticator
     jwSrc |-> "none",         \* how _fetch_jwks returned: cache | fetch
     atSrc |-> "none",         \* how the access token was got: cache | exchange
     refresh |-> NoRefresh,    \* the JWKS refresh that succeeded while waiting,
                               \* kept until validate_token has used the key set
     exchange |-> NoExchange,  \* the exchange of the same offline token that
                               \* succeeded while waiting, kept until
                               \* validate_token is entered
     health |-> "none"]        \* what health_check returned

\* A direct call of one of the authenticator's synchronous methods: fn names
\* the method, token, header and path are its argument, fetched is what
\* _fetch_jwks gives validate_token, and once done is TRUE ret (a bool), out
\* (a token and an error) or result (an AuthResult) is what it returned.
NoCall ==
    [fn |-> "none", token |-> BaseToken, header |-> <<>>, path |-> <<>>,
     fetched |-> "None", done |-> FALSE, ret |-> FALSE,
     out |-> [token |-> "None", error |-> "None"], result |-> NoResult]

Init ==
    /\ cfg \in Configs
    /\ now = 0
    /\ running = "none"
    /\ pc = [t \in Tasks |-> "idle"]
    /\ req = [t \in Reqs |-> NoReq]
    /\ loc = [t \in Tasks |-> LocInit]
    /\ _jwks_cache = "None"
    /\ _jwks_cache_time = 0
    /\ _oidc_config_cache = "None"
    /\ _oidc_config_cache_time = 0
    /\ _access_token_cache = [h \in Hashes |-> NoEntry]
    /\ _lock = FreeLock
    /\ _token_cache_lock = FreeLock
    /\ obs = [t \in Tasks |-> ObsInit]
    /\ jwks_fetched_at = -1
    /\ config_oidc = cfg
    /\ call = NoCall

(* ------------------------ authenticator predicates --------------------- *)
\* Fault: the path is compared for equality instead of by prefix.
should_skip_auth_Exact(path) ==
    \E i \in 1..Len(cfg.skip_paths) : path = cfg.skip_paths[i]

should_skip_auth(path) ==
    \E i \in 1..Len(cfg.skip_paths) : StartsWith(path, cfg.skip_paths[i])

is_enabled == cfg.enabled /\ cfg.issuer_url # "" /\ cfg.client_id # ""

_is_access_token(token) == Classify(TokenInfo[token], cfg.offline_token_enabled)

\* The freshness tests of the three caches, on the time the caller captured.
ConfigFresh(current_time) ==
    /\ _oidc_config_cache # "None"
    /\ current_time - _oidc_config_cache_time < cfg.jwks_cache_ttl

JwksFresh(current_time) ==
    /\ _jwks_cache # "None"
    /\ current_time - _jwks_cache_time < cfg.jwks_cache_ttl

\* Fault: the safety buffer is not subtracted.
TokenFresh_NoBuffer(entry, current_time) ==
    /\ entry.present
    /\ current_time < entry.expiry

TokenFresh(entry, current_time) ==
    /\ entry.present
    /\ current_time < entry.expiry - cfg.access_token_cache_buffer

(* ------------------------------- locks --------------------------------- *)
\* asyncio.Lock.acquire returns at once only when the lock is neither held
\* nor waited for; otherwise the caller queues and suspends.
\* Fault: a held lock is taken when nobody waits for it.
LockIdle_IgnoresHolder(l) == l.waiters = <<>>

LockIdle(l) == l.holder = "none" /\ l.waiters = <<>>
Acquired(l, t) == [l EXCEPT !.holder = t]
Queued(l, t) == [l EXCEPT !.waiters = Append(@, t)]
\* The first waiter is woken once the holder has released.
Woken(l, t) == l.holder = "none" /\ l.waiters # <<>> /\ Head(l.waiters) = t
Handed(l, t) == [holder |-> t, waiters |-> Tail(l.waiters)]
\* Fault: leaving the `async with` block does not release the lock.
Released_KeepsHolder(l) == l

Released(l) == [l EXCEPT !.holder = "none"]

(* ----------------------------- middleware ------------------------------ *)
\* __call__ lines 51-67: the request goes to the application untouched.
Passthrough(r) == r.type # "http" \/ ~is_enabled \/ should_skip_auth(r.path)

\* Fault: only a 401 is answered with a rejection.
Rejected_Only401(result) == ~result.authenticated /\ result.status_code = 401

\* __call__ line 76.
Rejected(result) == ~result.authenticated

\* Fault: every rejection is sent as 401.
RejectionResponse_Always401(result) ==
    [status_code |-> 401,
     error |-> "authentication_failed",
     message |-> result.error,
     www_authenticate |-> "Bearer realm=\"konflux-devlake-mcp\""]

\* __call__ lines 87-96: the JSONResponse.
RejectionResponse(result) ==
    [status_code |-> result.status_code,
     error |-> "authentication_failed",
     message |-> result.error,
     www_authenticate |-> "Bearer realm=\"konflux-devlake-mcp\""]

\* Fault: the e-mail address is attached as the username.
UserInfo_EmailAsName(result) ==
    [present |-> TRUE, id |-> result.user_id, username |-> result.email,
     email |-> result.email, groups |-> result.groups, scopes |-> result.scopes]

\* __call__ lines 101-107: scope["user"].
UserInfo(result) ==
    [present |-> TRUE, id |-> result.user_id, username |-> result.username,
     email |-> result.email, groups |-> result.groups, scopes |-> result.scopes]

\* An exception leaves authenticate_request and so __call__: neither the
\* application is called nor a response sent.
Raises(t) ==
    /\ pc' = [pc EXCEPT ![t] = "done"]
    /\ loc' = [loc EXCEPT ![t] = LocInit]
    /\ running' = t
Raised(o, t, exc) ==
    [o EXCEPT ![t].outcome = "raised", ![t].exc = exc, ![t].exc_in = "authenticator"]

\* authenticate_request returns `result` to __call__.
Returns(t, result) ==
    /\ pc' = [pc EXCEPT ![t] = "mw_result"]
    /\ loc' = [loc EXCEPT ![t] = [LocInit EXCEPT !.result = result]]
    /\ running' = t

\* __call__ is entered with scope r and runs up to authenticate_request.
Receive(t, r) ==
    /\ running = "none"
    /\ pc[t] = "idle"
    /\ req' = [req EXCEPT ![t] = r]
    /\ running' = t
    /\ UNCHANGED loc
    /\ IF Passthrough(r)
       THEN /\ pc' = [pc EXCEPT ![t] = "done"]
            /\ obs' = [obs EXCEPT ![t].outcome = "forwarded", ![t].appCalls = @ + 1]
       ELSE IF ~r.header.utf8
       THEN /\ pc' = [pc EXCEPT ![t] = "done"]
            /\ obs' = [obs EXCEPT ![t].outcome = "raised",
                                  ![t].exc = "UnicodeDecodeError",
                                  ![t].exc_in = "middleware"]
       ELSE /\ pc' = [pc EXCEPT ![t] = "auth"]
            /\ UNCHANGED obs
    /\ UNCHANGED <<cfg, config_oidc, call, jwks_fetched_at, now, caches, locks>>

\* __call__ lines 76-119: reject, or attach the identity and forward.
MwResult(t) ==
    /\ running = t
    /\ pc[t] = "mw_result"
    /\ pc' = [pc EXCEPT ![t] = "done"]
    /\ running' = t
    /\ IF Rejected(loc[t].result)
       THEN obs' = [obs EXCEPT ![t].outcome = "rejected",
                               ![t].respSent = @ + 1,
                               ![t].response = RejectionResponse(loc[t].result)]
       ELSE obs' = [obs EXCEPT ![t].outcome = "forwarded",
                               ![t].appCalls = @ + 1,
                               ![t].appUser = UserInfo(loc[t].result)]
    /\ UNCHANGED <<cfg, config_oidc, call, jwks_fetched_at, now, req, loc, caches, locks>>

(* ---------------------------- authenticator ---------------------------- *)
ExchangeFailed == Fail(Err("Token exchange failed. Please check your offline token.", {}), 401)
Unavailable == Fail(Err("Authentication service unavailable", {}), 503)
InternalError == Fail(Err("Internal authentication error", {}), 500)

\* The waiters of the JWKS lock learn how the holder's refresh ended.
MarkWaiters(o, rec) ==
    [w \in Tasks |-> IF w \in SeqToSet(_lock.waiters)
                     THEN [o[w] EXCEPT !.refresh = rec] ELSE o[w]]

\* The waiters of the access-token cache lock that presented the offline
\* token with digest h learn how the holder's exchange ended.
MarkTokenWaiters(o, h, rec) ==
    [w \in Tasks |-> IF w \in SeqToSet(_token_cache_lock.waiters) /\ loc[w].hash = h
                     THEN [o[w] EXCEPT !.exchange = rec] ELSE o[w]]

\* authenticate_request, were a token that is not an access token exchanged
\* whatever offline_token_enabled says.
AuthenticateRequest_AlwaysExchanges(t) ==
    /\ running = t
    /\ pc[t] = "auth"
    /\ obs' = [obs EXCEPT ![t].authCalls = @ + 1]
    /\ LET ex == _extract_token_from_header(req[t].header.text) IN
       IF ex.error # "None"
       THEN Returns(t, Fail(Err(ex.error, {}), 401))
       ELSE IF _is_access_token(ex.token)
       THEN /\ pc' = [pc EXCEPT ![t] = "vt_start"]
            /\ loc' = [loc EXCEPT ![t].tok = ex.token]
            /\ running' = t
       ELSE /\ pc' = [pc EXCEPT ![t] = "gat_start"]
            /\ loc' = [loc EXCEPT ![t].tok = ex.token]
            /\ running' = t
    /\ UNCHANGED <<cfg, config_oidc, call, jwks_fetched_at, now, req, caches, locks>>

\* authenticate_request lines 607-632, up to the first call that may suspend.
AuthenticateRequest(t) ==
    /\ running = t
    /\ pc[t] = "auth"
    /\ obs' = [obs EXCEPT ![t].authCalls = @ + 1]
    /\ LET ex == _extract_token_from_header(req[t].header.text) IN
       IF ex.error # "None"
       THEN Returns(t, Fail(Err(ex.error, {}), 401))
       ELSE IF _is_access_token(ex.token)
       THEN /\ pc' = [pc EXCEPT ![t] = "vt_start"]
            /\ loc' = [loc EXCEPT ![t].tok = ex.token]
            /\ running' = t
       ELSE IF ~cfg.offline_token_enabled
       THEN Returns(t, Fail(Err("Invalid token format. Expected JWT access token.", {}), 401))
       ELSE /\ pc' = [pc EXCEPT ![t] = "gat_start"]
            /\ loc' = [loc EXCEPT ![t].tok = ex.token]
            /\ running' = t
    /\ UNCHANGED <<cfg, config_oidc, call, jwks_fetched_at, now, req, caches, locks>>

\* _get_access_token_from_offline lines 374-377: hash, read the clock, then
\* `async with self._token_cache_lock`.
GatEnter(t) ==
    /\ running = t
    /\ pc[t] = "gat_start"
    /\ loc' = [loc EXCEPT ![t].hash = _hash_token(loc[t].tok), ![t].t_tok = now]
    /\ obs' = [obs EXCEPT ![t].exchange = NoExchange]
    /\ IF LockIdle(_token_cache_lock)
       THEN /\ _token_cache_lock' = Acquired(_token_cache_lock, t)
            /\ pc' = [pc EXCEPT ![t] = "gat_check"]
            /\ running' = t
       ELSE /\ _token_cache_lock' = Queued(_token_cache_lock, t)
            /\ pc' = [pc EXCEPT ![t] = "gat_wait"]
            /\ running' = "none"
    /\ UNCHANGED <<cfg, config_oidc, call, jwks_fetched_at, now, req, caches, _lock>>

\* The waiter at the head of the queue gets the released lock.
GatAcquire(t) ==
    /\ running = "none"
    /\ pc[t] = "gat_wait"
    /\ Woken(_token_cache_lock, t)
    /\ _token_cache_lock' = Handed(_token_cache_lock, t)
    /\ pc' = [pc EXCEPT ![t] = "gat_check"]
    /\ running' = t
    /\ UNCHANGED <<cfg, config_oidc, call, jwks_fetched_at, now, req, loc, caches, _lock, obs>>

\* The cache lookup, were a cached access token returned as the result
\* without validate_token.
GatCheck_TrustsCache(t) ==
    /\ running = t
    /\ pc[t] = "gat_check"
    /\ LET entry == _access_token_cache[loc[t].hash] IN
       IF TokenFresh(entry, loc[t].t_tok)
       THEN /\ _token_cache_lock' = Released(_token_cache_lock)
            /\ pc' = [pc EXCEPT ![t] = "mw_result"]
            /\ loc' = [loc EXCEPT ![t] =
                         [LocInit EXCEPT !.result = FromPayload(TokenInfo[entry.token], cfg)]]
            /\ obs' = [obs EXCEPT ![t].atSrc = "cache"]
       ELSE /\ pc' = [pc EXCEPT ![t] = "disc_start"]
            /\ loc' = [loc EXCEPT ![t].disc_ret = "ex"]
            /\ UNCHANGED <<_token_cache_lock, obs>>
    /\ UNCHANGED <<cfg, config_oidc, call, jwks_fetched_at, now, running, req, caches, _lock>>

\* _get_access_token_from_offline lines 378-387: the cache lookup.
GatCheck(t) ==
    /\ running = t
    /\ pc[t] = "gat_check"
    /\ LET entry == _access_token_cache[loc[t].hash] IN
       IF TokenFresh(entry, loc[t].t_tok)
       THEN /\ _token_cache_lock' = Released(_token_cache_lock)
            /\ pc' = [pc EXCEPT ![t] = "vt_start"]
            /\ loc' = [loc EXCEPT ![t].tok = entry.token, ![t].t_tok = 0]
            /\ obs' = [obs EXCEPT ![t].atSrc = "cache"]
       ELSE /\ pc' = [pc EXCEPT ![t] = "disc_start"]
            /\ loc' = [loc EXCEPT ![t].disc_ret = "ex"]
            /\ UNCHANGED <<_token_cache_lock, obs>>
    /\ UNCHANGED <<cfg, config_oidc, call, jwks_fetched_at, now, running, req, caches, _lock>>

\* _fetch_oidc_configuration lines 145-159: read the clock, return the cached
\* document or send the GET.
FetchOidcConfiguration(t) ==
    /\ running = t
    /\ pc[t] = "disc_start"
    /\ IF ConfigFresh(now)
       THEN /\ pc' = [pc EXCEPT ![t] = "disc_ret"]
            /\ loc' = [loc EXCEPT ![t].doc = _oidc_config_cache]
            /\ UNCHANGED <<running, obs>>
       ELSE /\ pc' = [pc EXCEPT ![t] = "disc_get"]
            /\ loc' = [loc EXCEPT ![t].t_disc = now]
            /\ obs' = [obs EXCEPT ![t].discReq = @ + 1]
            /\ running' = "none"
    /\ UNCHANGED <<cfg, config_oidc, call, jwks_fetched_at, now, req, caches, locks>>

\* _fetch_oidc_configuration lines 159-170: the GET completes.  resp is a
\* parsed 2xx body, "err" (HTTP error, timeout, non-2xx) or "badjson".
DiscResponse(t, resp) ==
    /\ running = "none"
    /\ pc[t] = "disc_get"
    /\ pc' = [pc EXCEPT ![t] = "disc_ret"]
    /\ running' = t
    /\ IF resp \in DiscDocs
       THEN /\ _oidc_config_cache' = resp
            /\ _oidc_config_cache_time' = loc[t].t_disc
            /\ loc' = [loc EXCEPT ![t].doc = resp, ![t].t_disc = 0]
       ELSE /\ loc' = [loc EXCEPT ![t].exc = "RuntimeError", ![t].t_disc = 0]
            /\ UNCHANGED <<_oidc_config_cache, _oidc_config_cache_time>>
    /\ UNCHANGED <<cfg, config_oidc, call, jwks_fetched_at, now, req, _jwks_cache, _jwks_cache_time,
                   _access_token_cache, locks, obs>>

\* validate_token line 481 and _fetch_jwks lines 179-181: read the clock,
\* then `async with self._lock`.
ValidateEnter(t) ==
    /\ running = t
    /\ pc[t] = "vt_start"
    /\ loc' = [loc EXCEPT ![t].t_jwks = now]
    /\ obs' = [obs EXCEPT ![t].refresh = NoRefresh, ![t].exchange = NoExchange]
    /\ IF LockIdle(_lock)
       THEN /\ _lock' = Acquired(_lock, t)
            /\ pc' = [pc EXCEPT ![t] = "jw_check"]
            /\ running' = t
       ELSE /\ _lock' = Queued(_lock, t)
            /\ pc' = [pc EXCEPT ![t] = "jw_wait"]
            /\ running' = "none"
    /\ UNCHANGED <<cfg, config_oidc, call, jwks_fetched_at, now, req, caches, _token_cache_lock>>

JwksAcquire(t) ==
    /\ running = "none"
    /\ pc[t] = "jw_wait"
    /\ Woken(_lock, t)
    /\ _lock' = Handed(_lock, t)
    /\ pc' = [pc EXCEPT ![t] = "jw_check"]
    /\ running' = t
    /\ UNCHANGED <<cfg, config_oidc, call, jwks_fetched_at, now, req, loc, caches, _token_cache_lock, obs>>

\* _fetch_jwks lines 182-190: the cache lookup.
JwksCheck(t) ==
    /\ running = t
    /\ pc[t] = "jw_check"
    /\ IF JwksFresh(loc[t].t_jwks)
       THEN /\ _lock' = Released(_lock)
            /\ pc' = [pc EXCEPT ![t] = "vt_verify"]
            /\ loc' = [loc EXCEPT ![t].jwks = _jwks_cache, ![t].t_jwks = 0]
            /\ obs' = [obs EXCEPT ![t].jwSrc = "cache"]
       ELSE /\ pc' = [pc EXCEPT ![t] = "disc_start"]
            /\ loc' = [loc EXCEPT ![t].disc_ret = "jw"]
            /\ UNCHANGED <<_lock, obs>>
    /\ UNCHANGED <<cfg, config_oidc, call, jwks_fetched_at, now, running, req, caches, _token_cache_lock>>

\* _fetch_jwks lines 190-200 after _fetch_oidc_configuration has returned or
\* raised; the exceptions are handled by validate_token lines 577-590.
JwksAfterDisc(t) ==
    /\ running = t
    /\ pc[t] = "disc_ret"
    /\ loc[t].disc_ret = "jw"
    /\ IF loc[t].exc # "none" \/ (IsDict(loc[t].doc) /\ ~HasJwksUri(loc[t].doc))
       THEN /\ Returns(t, Unavailable)
            /\ _lock' = Released(_lock)
            /\ obs' = MarkWaiters(obs, NoRefresh)
       ELSE IF ~IsDict(loc[t].doc)
       THEN /\ Returns(t, InternalError)
            /\ _lock' = Released(_lock)
            /\ obs' = MarkWaiters(obs, NoRefresh)
       ELSE /\ pc' = [pc EXCEPT ![t] = "jw_get"]
            /\ loc' = [loc EXCEPT ![t].doc = "None", ![t].disc_ret = "none"]
            /\ obs' = [obs EXCEPT ![t].jwksReq = @ + 1]
            /\ running' = "none"
            /\ UNCHANGED _lock
    /\ UNCHANGED <<cfg, config_oidc, call, jwks_fetched_at, now, req, caches, _token_cache_lock>>

\* _fetch_jwks lines 200-213: the GET completes.  resp is a parsed 2xx body,
\* "err" or "badjson".
JwksResponse(t, resp) ==
    /\ running = "none"
    /\ pc[t] = "jw_get"
    /\ _lock' = Released(_lock)
    /\ IF resp \in JwksDocs
       THEN /\ _jwks_cache' = resp
            /\ _jwks_cache_time' = loc[t].t_jwks
       ELSE UNCHANGED <<_jwks_cache, _jwks_cache_time>>
    /\ IF resp \in JwksDocs /\ IsDict(resp)
       THEN /\ pc' = [pc EXCEPT ![t] = "vt_verify"]
            /\ loc' = [loc EXCEPT ![t].jwks = resp, ![t].t_jwks = 0]
            /\ running' = t
            /\ obs' = MarkWaiters([obs EXCEPT ![t].jwSrc = "fetch"],
                                  [seen |-> TRUE, at |-> loc[t].t_jwks, keys |-> resp])
            /\ jwks_fetched_at' = loc[t].t_jwks
       ELSE /\ Returns(t, Unavailable)
            /\ obs' = MarkWaiters(obs, NoRefresh)
            /\ UNCHANGED jwks_fetched_at
    /\ UNCHANGED <<cfg, config_oidc, call, now, req, _oidc_config_cache, _oidc_config_cache_time,
                   _access_token_cache, _token_cache_lock>>

\* validate_token lines 483-575 with the key set in hand.
Verify(t) ==
    /\ running = t
    /\ pc[t] = "vt_verify"
    /\ Returns(t, VerifyToken(TokenInfo[loc[t].tok], loc[t].jwks, now, cfg))
    /\ obs' = [obs EXCEPT ![t].refresh = NoRefresh]
    /\ UNCHANGED <<cfg, config_oidc, call, jwks_fetched_at, now, req, caches, locks>>

\* _exchange_offline_token lines 310-336 after _fetch_oidc_configuration has
\* returned or raised; authenticate_request lines 634-640 catch RuntimeError.
ExchangeAfterDisc(t) ==
    /\ running = t
    /\ pc[t] = "disc_ret"
    /\ loc[t].disc_ret = "ex"
    /\ IF loc[t].exc # "none" \/ (IsDict(loc[t].doc) /\ ~HasTokenEndpoint(loc[t].doc))
       THEN /\ Returns(t, ExchangeFailed)
            /\ _token_cache_lock' = Released(_token_cache_lock)
            /\ obs' = MarkTokenWaiters(obs, loc[t].hash, NoExchange)
       ELSE IF ~IsDict(loc[t].doc)
       THEN /\ Raises(t)
            /\ _token_cache_lock' = Released(_token_cache_lock)
            /\ obs' = MarkTokenWaiters(Raised(obs, t, "AttributeError"), loc[t].hash, NoExchange)
       ELSE /\ pc' = [pc EXCEPT ![t] = "ex_post"]
            /\ loc' = [loc EXCEPT ![t].doc = "None", ![t].disc_ret = "none"]
            /\ obs' = [obs EXCEPT ![t].exReq = @ + 1]
            /\ running' = "none"
            /\ UNCHANGED _token_cache_lock
    /\ UNCHANGED <<cfg, config_oidc, call, jwks_fetched_at, now, req, caches, _lock>>

\* _exchange_offline_token lines 337-359 and _get_access_token_from_offline
\* lines 389-394: the POST completes.
ExchangeResponse(t, resp) ==
    /\ running = "none"
    /\ pc[t] = "ex_post"
    /\ _token_cache_lock' = Released(_token_cache_lock)
    /\ IF resp.kind \in {"status", "net"} \/ (resp.kind = "dict" /\ resp.access_token = "None")
       THEN /\ Returns(t, ExchangeFailed)
            /\ obs' = MarkTokenWaiters(obs, loc[t].hash, NoExchange)
            /\ UNCHANGED _access_token_cache
       ELSE IF resp.kind = "badjson"
       THEN /\ Raises(t)
            /\ obs' = MarkTokenWaiters(Raised(obs, t, "JSONDecodeError"), loc[t].hash, NoExchange)
            /\ UNCHANGED _access_token_cache
       ELSE IF resp.kind = "list"
       THEN /\ Raises(t)
            /\ obs' = MarkTokenWaiters(Raised(obs, t, "AttributeError"), loc[t].hash, NoExchange)
            /\ UNCHANGED _access_token_cache
       ELSE IF resp.expires = "str"
       THEN /\ Raises(t)
            /\ obs' = MarkTokenWaiters(Raised(obs, t, "TypeError"), loc[t].hash, NoExchange)
            /\ UNCHANGED _access_token_cache
       ELSE LET expires_in == IF resp.expires = "absent" THEN 300 ELSE resp.expires_in
                expiry_time == loc[t].t_tok + expires_in
            IN
            /\ _access_token_cache' =
                 [_access_token_cache EXCEPT ![loc[t].hash] =
                     [present |-> TRUE, token |-> resp.access_token,
                      expiry |-> expiry_time]]
            /\ pc' = [pc EXCEPT ![t] = "vt_start"]
            /\ loc' = [loc EXCEPT ![t].tok = resp.access_token, ![t].t_tok = 0]
            /\ obs' = MarkTokenWaiters([obs EXCEPT ![t].atSrc = "exchange"], loc[t].hash,
                                       [seen |-> TRUE, at |-> loc[t].t_tok,
                                        token |-> resp.access_token, expiry |-> expiry_time])
            /\ running' = t
    /\ UNCHANGED <<cfg, config_oidc, call, jwks_fetched_at, now, req, _jwks_cache, _jwks_cache_time,
                   _oidc_config_cache, _oidc_config_cache_time, _lock>>

\* health_check lines 673-680.
HealthCheck(h) ==
    /\ running = "none"
    /\ pc[h] = "idle"
    /\ running' = h
    /\ IF ~is_enabled
       THEN /\ obs' = [obs EXCEPT ![h].health = "disabled"]
            /\ pc' = [pc EXCEPT ![h] = "done"]
            /\ UNCHANGED loc
       ELSE /\ pc' = [pc EXCEPT ![h] = "disc_start"]
            /\ loc' = [loc EXCEPT ![h].disc_ret = "hc"]
            /\ UNCHANGED obs
    /\ UNCHANGED <<cfg, config_oidc, call, jwks_fetched_at, now, req, caches, locks>>

\* health_check lines 681-690.
HealthAfterDisc(h) ==
    /\ running = h
    /\ pc[h] = "disc_ret"
    /\ loc[h].disc_ret = "hc"
    /\ obs' = [obs EXCEPT ![h].health =
                  IF loc[h].exc # "none" THEN "unhealthy" ELSE "healthy"]
    /\ pc' = [pc EXCEPT ![h] = "done"]
    /\ loc' = [loc EXCEPT ![h] = LocInit]
    /\ UNCHANGED <<cfg, config_oidc, call, jwks_fetched_at, now, running, req, caches, locks>>

\* The call has returned (or raised) and its task ends.
Complete(t) ==
    /\ running = t
    /\ pc[t] = "done"
    /\ pc' = [pc EXCEPT ![t] = "idle"]
    /\ req' = [r \in Reqs |-> IF r = t THEN NoReq ELSE req[r]]
    /\ loc' = [loc EXCEPT ![t] = LocInit]
    /\ obs' = [obs EXCEPT ![t] = ObsInit]
    /\ running' = "none"
    /\ UNCHANGED <<cfg, config_oidc, call, jwks_fetched_at, now, caches, locks>>

\* The clock advances while no task owns the loop.
Tick ==
    /\ running = "none"
    /\ now < MaxTime
    /\ now' = now + 1
    /\ UNCHANGED <<cfg, config_oidc, call, jwks_fetched_at, running, pc, req, loc, caches, locks, obs>>

\* What the provider may answer.
DiscResponses == DiscDocs \cup {"err", "badjson"}
JwksResponses == JwksDocs \cup {"err", "badjson"}

\* Two requests and a health check in flight together, over the requests and
\* provider answers that reach every suspension point.
ConcRequests ==
    { [type |-> "http", path |-> P_mcp, header |-> h] :
        h \in {Hdr(<<>>), Hdr(<<"Bearer", WS, "atGood">>), Hdr(<<"Bearer", WS, "off1">>)} }
ConcDiscResponses == {"D_full", "err"}
ConcJwksResponses == {"K1", "err"}
ConcTokenResponses ==
    { r \in TokenResponses : r.kind = "status" \/ (r.expires = "int" /\ r.access_token = "atGood") }

Next ==
    \/ \E t \in Reqs, r \in ConcRequests : Receive(t, r)
    \/ \E t \in Reqs : AuthenticateRequest(t)
    \/ \E t \in Reqs : GatEnter(t)
    \/ \E t \in Reqs : GatAcquire(t)
    \/ \E t \in Reqs : GatCheck(t)
    \/ \E t \in Tasks : FetchOidcConfiguration(t)
    \/ \E t \in Tasks, resp \in ConcDiscResponses : DiscResponse(t, resp)
    \/ \E t \in Reqs : ExchangeAfterDisc(t)
    \/ \E t \in Reqs, resp \in ConcTokenResponses : ExchangeResponse(t, resp)
    \/ \E t \in Reqs : ValidateEnter(t)
    \/ \E t \in Reqs : JwksAcquire(t)
    \/ \E t \in Reqs : JwksCheck(t)
    \/ \E t \in Reqs : JwksAfterDisc(t)
    \/ \E t \in Reqs, resp \in ConcJwksResponses : JwksResponse(t, resp)
    \/ \E t \in Reqs : Verify(t)
    \/ \E t \in Reqs : MwResult(t)
    \/ \E h \in Hcs : HealthCheck(h)
    \/ \E h \in Hcs : HealthAfterDisc(h)
    \/ \E t \in Tasks : Complete(t)
    \/ Tick

Spec == Init /\ [][Next]_vars

\* One request at a time, over every request and every provider answer.
SeqReqs == {"r1"}

NextSeq ==
    \/ \E t \in SeqReqs, r \in Requests : Receive(t, r)
    \/ \E t \in SeqReqs : AuthenticateRequest(t)
    \/ \E t \in SeqReqs : GatEnter(t)
    \/ \E t \in SeqReqs : GatCheck(t)
    \/ \E t \in SeqReqs : FetchOidcConfiguration(t)
    \/ \E t \in SeqReqs, resp \in DiscResponses : DiscResponse(t, resp)
    \/ \E t \in SeqReqs : ExchangeAfterDisc(t)
    \/ \E t \in SeqReqs, resp \in TokenResponses : ExchangeResponse(t, resp)
    \/ \E t \in SeqReqs : ValidateEnter(t)
    \/ \E t \in SeqReqs : JwksCheck(t)
    \/ \E t \in SeqReqs : JwksAfterDisc(t)
    \/ \E t \in SeqReqs, resp \in JwksResponses : JwksResponse(t, resp)
    \/ \E t \in SeqReqs : Verify(t)
    \/ \E t \in SeqReqs : MwResult(t)
    \/ \E t \in SeqReqs : Complete(t)
    \/ Tick

SpecSeq == Init /\ [][NextSeq]_vars

(* ------------------------- the classifier alone ------------------------ *)
\* The typ claims a token may carry in its header and in its payload.
HeaderTyps ==
    {<<>>, T_JWT, T_Bearer, T_Offline, T_Refresh, T_refresh_lc, Upper(T_Refresh),
     T_refresh_jwt, T_RT, T_rt_lc}
PayloadTyps ==
    {<<>>, T_Bearer, T_bearer_lc, Upper(T_Bearer), T_Offline, T_offline_lc,
     Upper(T_Offline), T_Refresh, T_refresh_lc, T_refresh_jwt, T_RT, T_ID}

\* The tokens _is_access_token may be given: strings without 3 segments,
\* 3-segment strings that do not decode, and JWTs over every pair of typ
\* claims, a typ that is not a string included.
ClassifierTokens ==
    { [OpaqueToken EXCEPT !.segs = n] : n \in {1, 2, 4} }
    \cup
    { [BaseToken EXCEPT !.hdr_ok = FALSE, !.hdr_typ = <<>>, !.pl_ok = FALSE, !.pl_typ = <<>>] }
    \cup
    { [BaseToken EXCEPT !.hdr_ok = ho, !.hdr_typ = IF ho THEN ht ELSE <<>>,
                        !.pl_ok = TRUE, !.pl_typ = pt] :
        ho \in BOOLEAN, ht \in HeaderTyps, pt \in PayloadTyps }
    \cup
    { [BaseToken EXCEPT !.hdr_typ = ht, !.pl_ok = FALSE, !.pl_typ = <<>>] : ht \in HeaderTyps }
    \cup
    { [BaseToken EXCEPT !.hdr_typ = <<>>, !.hdr_typ_str = FALSE, !.pl_ok = po,
                        !.pl_typ = IF po THEN pt ELSE <<>>] :
        po \in BOOLEAN, pt \in {<<>>, T_Bearer, T_Offline, T_ID} }
    \cup
    { [BaseToken EXCEPT !.hdr_typ = ht, !.pl_typ = <<>>, !.pl_typ_str = FALSE] :
        ht \in HeaderTyps }

\* The chunks an Authorization header value is made of, and the values of up
\* to MaxChunks chunks: runs of whitespace and words alternate.
HeaderChunks == {WS, "Bearer", "bearer", "BEARER", "bEaReR", "Basic", "atGood", "xyz"}
HeaderValues ==
    UNION { { h \in [1..n -> HeaderChunks] :
                \A i \in 1..(n - 1) : (h[i] = WS) # (h[i + 1] = WS) } : n \in 0..MaxChunks }

\* The skip_paths lists an authenticator may be configured with (the default,
\* none, a glob-like entry, an empty prefix, two overlapping prefixes) and the
\* paths should_skip_auth may be asked about.
SkipLists ==
    { <<P_health, P_security>>, <<>>, <<P_health_star>>, << <<>> >>, <<P_mcp>>,
      <<P_health_live, P_heal>> }
SkipConfigs ==
    { [c EXCEPT !.skip_paths = S] : c \in {DefaultConfig, ActiveConfig}, S \in SkipLists }
Paths ==
    { <<>>, <<"/">>, P_heal, P_health, P_healthz, P_health_live, P_health_star,
      P_api_health, P_security, P_mcp, P_mcp_tools }

\* The scope claims a token may carry and the required_scopes an
\* authenticator may be configured with.
ScopeClaims ==
    { <<>>, <<"openid">>, <<"openid", WS, "profile">>, <<"mcp">>, <<"openid", WS, "mcp">>,
      <<"admin">>, <<"admin", WS, "write">>, <<WS, "write", WS, "openid", WS, "admin", WS>> }
RequiredScopeLists == { <<>>, <<"mcp">>, <<"admin", "write">> }
VerifyConfigs == { [ActiveConfig EXCEPT !.required_scopes = R] : R \in RequiredScopeLists }

\* The tokens validate_token may be given: sound tokens over every scope
\* claim, one whose scope claim is not a string, and tokens with one or two
\* faults, the sound scope claims among them.
FaultyTokens ==
    { [BaseToken EXCEPT !.hdr_ok = FALSE],
      [BaseToken EXCEPT !.kid = "kx", !.alg = "ES256"],
      [BaseToken EXCEPT !.alg = "RS512"],
      [BaseToken EXCEPT !.signed_by = "k9"],
      [BaseToken EXCEPT !.pl_ok = FALSE],
      [BaseToken EXCEPT !.exp = 0],
      [BaseToken EXCEPT !.iss = "https://evil.example.com"],
      [BaseToken EXCEPT !.aud = "other-client"],
      [BaseToken EXCEPT !.exp = 0, !.aud = "other-client"],
      [BaseToken EXCEPT !.iss = "https://evil.example.com", !.aud = "other-client"],
      [BaseToken EXCEPT !.signed_by = "k9", !.exp = 0] }
VerifyTokens ==
    { [ti EXCEPT !.scope = sc] :
        ti \in {BaseToken} \cup FaultyTokens, sc \in ScopeClaims }
    \cup
    { [BaseToken EXCEPT !.scope = <<>>, !.scope_is_str = FALSE] }

\* How _fetch_jwks ends for validate_token: it returns a key set, returns a
\* cached body that is not an object, or raises RuntimeError.
FetchOutcomes == JwksDocs \cup {"RuntimeError"}

\* An authenticator has been constructed and one of its synchronous methods
\* is about to be called.
InitPure ==
    /\ \/ /\ cfg \in Configs
          /\ call \in
                { [NoCall EXCEPT !.fn = "_is_access_token", !.token = ti] :
                    ti \in ClassifierTokens }
                \cup
                { [NoCall EXCEPT !.fn = "_extract_token_from_header", !.header = h] :
                    h \in HeaderValues }
       \/ /\ cfg \in SkipConfigs
          /\ call \in { [NoCall EXCEPT !.fn = "should_skip_auth", !.path = q] : q \in Paths }
       \/ /\ cfg \in VerifyConfigs
          /\ call \in { [NoCall EXCEPT !.fn = "validate_token", !.token = ti, !.fetched = f] :
                          ti \in VerifyTokens, f \in FetchOutcomes }
    /\ now = 0
    /\ running = "none"
    /\ pc = [t \in Tasks |-> "idle"]
    /\ req = [t \in Reqs |-> NoReq]
    /\ loc = [t \in Tasks |-> LocInit]
    /\ _jwks_cache = "None"
    /\ _jwks_cache_time = 0
    /\ _oidc_config_cache = "None"
    /\ _oidc_config_cache_time = 0
    /\ _access_token_cache = [h \in Hashes |-> NoEntry]
    /\ _lock = FreeLock
    /\ _token_cache_lock = FreeLock
    /\ obs = [t \in Tasks |-> ObsInit]
    /\ jwks_fetched_at = -1
    /\ config_oidc = cfg

\* _is_access_token(token) runs and returns.
IsAccessToken ==
    /\ call.fn = "_is_access_token"
    /\ ~call.done
    /\ call' = [call EXCEPT !.done = TRUE,
                            !.ret = Classify(call.token, cfg.offline_token_enabled)]
    /\ UNCHANGED <<cfg, config_oidc, now, running, pc, req, loc, caches, locks, obs,
                 jwks_fetched_at>>

\* _extract_token_from_header(auth_header) runs and returns.
ExtractTokenFromHeader ==
    /\ call.fn = "_extract_token_from_header"
    /\ ~call.done
    /\ call' = [call EXCEPT !.done = TRUE, !.out = _extract_token_from_header(call.header)]
    /\ UNCHANGED <<cfg, config_oidc, now, running, pc, req, loc, caches, locks, obs,
                 jwks_fetched_at>>

\* should_skip_auth(path) runs and returns.
ShouldSkipAuth ==
    /\ call.fn = "should_skip_auth"
    /\ ~call.done
    /\ call' = [call EXCEPT !.done = TRUE, !.ret = should_skip_auth(call.path)]
    /\ UNCHANGED <<cfg, config_oidc, now, running, pc, req, loc, caches, locks, obs,
                 jwks_fetched_at>>

\* validate_token(token) runs from the return of _fetch_jwks to its own
\* return: RuntimeError is answered by lines 577-583, a key set goes through
\* lines 483-575 and 584-590.
ValidateToken ==
    /\ call.fn = "validate_token"
    /\ ~call.done
    /\ call' = [call EXCEPT !.done = TRUE,
                            !.result = IF call.fetched = "RuntimeError" THEN Unavailable
                                       ELSE VerifyToken(call.token, call.fetched, now, cfg)]
    /\ UNCHANGED <<cfg, config_oidc, now, running, pc, req, loc, caches, locks, obs,
                 jwks_fetched_at>>

NextPure ==
    \/ IsAccessToken
    \/ ExtractTokenFromHeader
    \/ ShouldSkipAuth
    \/ ValidateToken

SpecPure == InitPure /\ [][NextPure]_vars

(* ----------------- the middleware the application builds --------------- *)
\* config.oidc of a KonfluxDevLakeConfig: the OIDC settings read from the
\* environment (OIDC_ENABLED, OIDC_ISSUER_URL, OIDC_CLIENT_ID, ...,
\* OIDC_OFFLINE_TOKEN_ENABLED, OIDC_ACCESS_TOKEN_CACHE_BUFFER).
LoadedOIDCConfig(enabled, offline_token_enabled, access_token_cache_buffer) ==
    [enabled |-> enabled,
     issuer_url |-> IF enabled THEN ISSUER ELSE "",
     client_id |-> IF enabled THEN CLIENT ELSE "",
     required_scopes |-> IF enabled THEN <<"mcp">> ELSE <<>>,
     jwks_cache_ttl |-> IF enabled THEN 2 ELSE 3600,
     skip_paths |-> <<P_health, P_security>>,
     offline_token_enabled |-> offline_token_enabled,
     access_token_cache_buffer |-> access_token_cache_buffer]

LoadedConfigs ==
    { LoadedOIDCConfig(FALSE, FALSE, 60),
      LoadedOIDCConfig(TRUE, FALSE, 60),
      LoadedOIDCConfig(TRUE, TRUE, 60),
      LoadedOIDCConfig(TRUE, TRUE, 1) }

\* create_auth_middleware: the OIDCConfig of the authenticator it builds.  The
\* constructor call names enabled, issuer_url, client_id, required_scopes,
\* jwks_cache_ttl, skip_paths and verify_ssl; every other field keeps the
\* default of the dataclass.  With enabled false the application is returned
\* unwrapped, which is what a middleware whose authenticator is not enabled
\* does with every request.
create_auth_middleware(oidc) ==
    [DefaultConfig EXCEPT !.enabled = oidc.enabled,
                          !.issuer_url = oidc.issuer_url,
                          !.client_id = oidc.client_id,
                          !.required_scopes = oidc.required_scopes,
                          !.jwks_cache_ttl = oidc.jwks_cache_ttl,
                          !.skip_paths = oidc.skip_paths]

InitApp ==
    /\ \/ /\ config_oidc \in LoadedConfigs
          /\ cfg = create_auth_middleware(config_oidc)
       \/ /\ config_oidc = [ActiveConfig EXCEPT !.offline_token_enabled = TRUE]
          /\ cfg = config_oidc
    /\ now = 0
    /\ running = "none"
    /\ pc = [t \in Tasks |-> "idle"]
    /\ req = [t \in Reqs |-> NoReq]
    /\ loc = [t \in Tasks |-> LocInit]
    /\ _jwks_cache = "None"
    /\ _jwks_cache_time = 0
    /\ _oidc_config_cache = "None"
    /\ _oidc_config_cache_time = 0
    /\ _access_token_cache = [h \in Hashes |-> NoEntry]
    /\ _lock = FreeLock
    /\ _token_cache_lock = FreeLock
    /\ obs = [t \in Tasks |-> ObsInit]
    /\ jwks_fetched_at = -1
    /\ call = NoCall

\* One request at a time through a middleware that create_auth_middleware
\* built from a loaded configuration, or that was constructed as
\* AuthMiddleware(app, oidc_config) with offline tokens enabled.
SpecApp == InitApp /\ [][NextSeq]_vars

(* ------------------------- concurrent requests, fairly ----------------- *)
\* Two request tasks on one event loop, offline tokens enabled, presenting
\* access tokens and offline tokens; the provider answers every call, with a
\* usable body, with a failure or with a body that makes the caller raise.
FairRequests ==
    { [type |-> "http", path |-> P_mcp, header |-> h] :
        h \in {Hdr(<<"Bearer", WS, "atGood">>), Hdr(<<"Bearer", WS, "off1">>)} }
FairTokenResponses ==
    { r \in TokenResponses :
        \/ r.kind \in {"status", "badjson"}
        \/ r.expires = "int" /\ r.access_token = "atGood" }

InitFair ==
    /\ Init
    /\ cfg = [ActiveConfig EXCEPT !.offline_token_enabled = TRUE]

\* What a task does while it owns the event loop: it runs until it suspends
\* or ends.
Runs(t) ==
    \/ AuthenticateRequest(t)
    \/ GatEnter(t)
    \/ GatCheck(t)
    \/ FetchOidcConfiguration(t)
    \/ ExchangeAfterDisc(t)
    \/ ValidateEnter(t)
    \/ JwksCheck(t)
    \/ JwksAfterDisc(t)
    \/ Verify(t)
    \/ MwResult(t)
    \/ Complete(t)

\* What resumes a suspended task: the lock it waits for is handed to it, or
\* the HTTP call it awaits completes (httpx raises after its timeout).
Resumes(t) ==
    \/ GatAcquire(t)
    \/ JwksAcquire(t)
    \/ \E resp \in ConcDiscResponses : DiscResponse(t, resp)
    \/ \E resp \in ConcJwksResponses : JwksResponse(t, resp)
    \/ \E resp \in FairTokenResponses : ExchangeResponse(t, resp)

\* The clock advances while no task owns the loop.
TickFair ==
    /\ running = "none"
    /\ now < MaxFairTime
    /\ now' = now + 1
    /\ UNCHANGED <<cfg, config_oidc, call, jwks_fetched_at, running, pc, req, loc, caches, locks,
                   obs>>

NextFair ==
    \/ \E t \in Reqs, r \in FairRequests : Receive(t, r)
    \/ \E t \in Reqs : Runs(t)
    \/ \E t \in Reqs : Resumes(t)
    \/ TickFair

\* asyncio runs the task that owns the loop up to its next await, and runs
\* every callback that became ready in the order it became ready: a task that
\* can be resumed again and again is resumed.
Fairness ==
    \A t \in Reqs : WF_vars(Runs(t)) /\ SF_vars(Resumes(t))

SpecFair == InitFair /\ [][NextFair]_vars /\ Fairness

(* ======================================================================= *)
(*                               properties                                *)
(* ======================================================================= *)
\* The request of task t is one the middleware must authenticate: HTTP, the
\* authenticator active, no skip prefix at the start of the path.
MustAuthenticate(t) ==
    /\ req[t].type = "http"
    /\ cfg.enabled /\ cfg.issuer_url # "" /\ cfg.client_id # ""
    /\ \A i \in 1..Len(cfg.skip_paths) : ~StartsWith(req[t].path, cfg.skip_paths[i])

ProviderCalls(t) == obs[t].discReq + obs[t].jwksReq + obs[t].exReq

\* C1: for an HTTP request with the authenticator active and no skip prefix,
\* the application is called only if authenticate_request returned
\* authenticated=true; after a result that is not authenticated it is not
\* called.
C1_DownstreamOnlyIfAuthenticated ==
    \A t \in Reqs :
        (pc[t] # "idle" /\ MustAuthenticate(t)) =>
            /\ obs[t].appCalls > 0 =>
                   (obs[t].authCalls = 1 /\ loc[t].result.authenticated)
            /\ (pc[t] = "done" /\ obs[t].authCalls = 1 /\ ~loc[t].result.authenticated)
                   => obs[t].appCalls = 0

C1_Witness ==
    \E t \in Reqs :
        /\ pc[t] = "done" /\ MustAuthenticate(t)
        /\ obs[t].appCalls = 1 /\ loc[t].result.authenticated

\* C2: a request that is not HTTP, or arrives while the authenticator is not
\* active, or whose path starts with a skip prefix, is forwarded with no
\* identity attached, with no call of authenticate_request and no provider
\* call.
C2_PassthroughUntouched ==
    \A t \in Reqs :
        (pc[t] # "idle" /\ ~MustAuthenticate(t)) =>
            /\ pc[t] = "done"
            /\ obs[t].outcome = "forwarded"
            /\ obs[t].appCalls = 1
            /\ obs[t].appUser = NoUser
            /\ obs[t].authCalls = 0
            /\ ProviderCalls(t) = 0

C2_Witness ==
    \E t \in Reqs :
        /\ pc[t] = "done" /\ req[t].type = "http" /\ is_enabled
        /\ req[t].path = P_health_live
        /\ obs[t].appCalls = 1 /\ obs[t].authCalls = 0

\* C3: a rejection is a JSON body with error "authentication_failed" and the
\* AuthResult error as message, the AuthResult status code, which is one of
\* 401, 403, 500, 503, and a WWW-Authenticate Bearer realm header; a request
\* without Authorization header is rejected with 401.
C3_RejectionShape ==
    \A t \in Reqs :
        /\ obs[t].respSent > 0 =>
              /\ obs[t].response.error = "authentication_failed"
              /\ obs[t].response.message = loc[t].result.error
              /\ obs[t].response.message.msg # "None"
              /\ obs[t].response.status_code = loc[t].result.status_code
              /\ obs[t].response.status_code \in {401, 403, 500, 503}
              /\ obs[t].response.www_authenticate = "Bearer realm=\"konflux-devlake-mcp\""
        /\ (pc[t] = "done" /\ MustAuthenticate(t) /\ req[t].header = Hdr(<<>>)) =>
              /\ obs[t].respSent = 1
              /\ obs[t].response.status_code = 401

C3_Witness ==
    \E t \in Reqs : obs[t].respSent = 1 /\ obs[t].response.status_code = 403

\* C4: every request ends with the application called exactly once or a
\* rejection sent exactly once, never both and never neither, after at most
\* one call of authenticate_request.
C4_ExactlyOneOutcome ==
    \A t \in Reqs :
        /\ obs[t].authCalls <= 1
        /\ obs[t].appCalls + obs[t].respSent <= 1
        /\ pc[t] = "done" => obs[t].appCalls + obs[t].respSent = 1

\* C5: after authenticated=true the identity of the AuthResult is attached
\* to the scope and the application is called exactly once with it.
C5_IdentityAttached ==
    \A t \in Reqs :
        loc[t].result.authenticated =>
            /\ pc[t] \in {"mw_result", "done"}
            /\ pc[t] = "mw_result" => obs[t].appCalls = 0
            /\ pc[t] = "done" =>
                  /\ obs[t].appCalls = 1
                  /\ obs[t].respSent = 0
                  /\ obs[t].appUser =
                        [present |-> TRUE,
                         id |-> loc[t].result.user_id,
                         username |-> loc[t].result.username,
                         email |-> loc[t].result.email,
                         groups |-> loc[t].result.groups,
                         scopes |-> loc[t].result.scopes]

C5_Witness ==
    \E t \in Reqs :
        /\ pc[t] = "done" /\ loc[t].result.authenticated
        /\ obs[t].appCalls = 1 /\ obs[t].appUser.username = "alice"

\* C6: authenticate_request returns an AuthResult whatever the header and
\* whatever the provider answers: no exception leaves the authenticator.
C6_NoExceptionFromAuthenticator ==
    \A t \in Reqs : obs[t].exc_in # "authenticator"

\* Task t is between entering the critical section of _fetch_jwks and
\* leaving it.
RefreshingJwks(t) ==
    \/ pc[t] \in {"jw_check", "jw_get"}
    \/ pc[t] \in {"disc_start", "disc_get", "disc_ret"} /\ loc[t].disc_ret = "jw"

\* Task t is inside the critical section of _get_access_token_from_offline.
Exchanging(t) ==
    \/ pc[t] \in {"gat_check", "ex_post"}
    \/ pc[t] \in {"disc_start", "disc_get", "disc_ret"} /\ loc[t].disc_ret = "ex"

\* Task t has found the discovery cache stale and has not stored yet.
InDiscWindow(t) == pc[t] = "disc_get"

\* C7: a JWKS retrieval made less than jwks_cache_ttl after the last
\* successful fetch returns the cached key set and sends no JWKS request, so
\* that fetch and the retrievals inside its window make one upstream request;
\* a retrieval made jwks_cache_ttl or more after the last successful fetch,
\* or before any, goes upstream; a JWKS request is sent only by such a
\* retrieval, and the key set it gets replaces the cached key set and the
\* fetch time.
C7_JwksCacheTtl ==
    [][\A t \in Reqs :
        LET within == /\ jwks_fetched_at >= 0
                      /\ loc[t].t_jwks - jwks_fetched_at < cfg.jwks_cache_ttl
        IN
        /\ (pc[t] = "jw_check" /\ pc'[t] # "jw_check") =>
              IF within
              THEN /\ pc'[t] = "vt_verify"
                   /\ loc'[t].jwks = _jwks_cache
                   /\ obs'[t].jwksReq = 0
                   /\ UNCHANGED <<_jwks_cache, _jwks_cache_time>>
              ELSE pc'[t] = "disc_start"
        /\ obs'[t].jwksReq > obs[t].jwksReq => (obs'[t].jwksReq = 1 /\ ~within)
        /\ (pc[t] = "jw_get" /\ pc'[t] = "vt_verify") =>
              /\ obs[t].jwksReq = 1
              /\ _jwks_cache' = loc'[t].jwks
              /\ _jwks_cache_time' = loc[t].t_jwks
      ]_vars

\* At most one task is refreshing the JWKS.
C8_OneRefresh ==
    \A t1, t2 \in Reqs : (RefreshingJwks(t1) /\ RefreshingJwks(t2)) => t1 = t2

\* Key set and fetch time change only together, in the step in which the
\* holder of the lock stores its fetch, and the time stored is that fetch's.
C8_PairedStore ==
    (_jwks_cache' # _jwks_cache \/ _jwks_cache_time' # _jwks_cache_time) =>
        \E t \in Reqs :
            /\ pc[t] = "jw_get" /\ _lock.holder = t
            /\ _jwks_cache_time' = loc[t].t_jwks
            /\ pc'[t] = "vt_verify" => _jwks_cache' = loc'[t].jwks

\* A task that waited for the lock through a refresh that succeeded returns
\* the refreshed key set and sends no JWKS request.
C8_WaiterReusesRefresh ==
    \A t \in Reqs :
        (pc[t] = "jw_check" /\ pc'[t] # "jw_check" /\ obs[t].refresh.seen) =>
            /\ pc'[t] = "vt_verify"
            /\ loc'[t].jwks = obs[t].refresh.keys
            /\ obs'[t].jwksReq = 0

\* The same, for a task that arrived less than jwks_cache_ttl after the
\* refreshing call did.
C8_WaiterReusesRefreshInTtl ==
    \A t \in Reqs :
        (/\ pc[t] = "jw_check" /\ pc'[t] # "jw_check" /\ obs[t].refresh.seen
         /\ loc[t].t_jwks - obs[t].refresh.at < cfg.jwks_cache_ttl) =>
            /\ pc'[t] = "vt_verify"
            /\ loc'[t].jwks = obs[t].refresh.keys
            /\ obs'[t].jwksReq = 0

\* C8 as stated: at most one JWKS refresh is in flight; a caller that blocked
\* on the lock during a refresh that succeeded returns the refreshed key set
\* without a JWKS request of its own; key set and fetch time always belong to
\* the same fetch.
C8_AsStated ==
    /\ []C8_OneRefresh
    /\ [][C8_PairedStore /\ C8_WaiterReusesRefresh]_vars

\* C8 amended: as above, for the callers that arrived less than
\* jwks_cache_ttl after the refreshing call had arrived; a caller that
\* arrived later finds the refreshed entry already expired and fetches again.
C8_RefreshUnderLock ==
    /\ []C8_OneRefresh
    /\ [][C8_PairedStore /\ C8_WaiterReusesRefreshInTtl]_vars

C8_Witness ==
    \E t \in Reqs :
        /\ pc[t] = "vt_verify" /\ obs[t].refresh.seen
        /\ obs[t].jwSrc = "cache" /\ obs[t].jwksReq = 0
        /\ loc[t].jwks = obs[t].refresh.keys

\* C9: each cache is written only under its lock, so no two tasks are
\* between the freshness check and the store of the same cache, the
\* discovery cache included.
C9_CachesWrittenUnderLock ==
    /\ \A t \in Tasks : RefreshingJwks(t) => _lock.holder = t
    /\ \A t \in Tasks : Exchanging(t) => _token_cache_lock.holder = t
    /\ \A t1, t2 \in Tasks : (InDiscWindow(t1) /\ InDiscWindow(t2)) => t1 = t2

\* C10: a call of _get_access_token_from_offline made before the entry's
\* expiry minus access_token_cache_buffer returns the cached access token and
\* exchanges nothing, so it returns what the exchanging call returned; a call
\* made at or after that time goes to the exchange, only such a call sends
\* an exchange, and the token it gets is stored under the same key, the
\* other keys left alone.
C10_AccessTokenCache ==
    [][\A t \in Reqs :
        LET h == loc[t].hash
            e == _access_token_cache[h]
            usable == e.present
                      /\ loc[t].t_tok < e.expiry - cfg.access_token_cache_buffer
        IN
        /\ (pc[t] = "gat_check" /\ pc'[t] # "gat_check") =>
              IF usable
              THEN /\ pc'[t] = "vt_start"
                   /\ loc'[t].tok = e.token
                   /\ obs'[t].exReq = 0
                   /\ UNCHANGED _access_token_cache
              ELSE pc'[t] = "disc_start" /\ loc'[t].disc_ret = "ex"
        /\ obs'[t].exReq > obs[t].exReq => (obs'[t].exReq = 1 /\ ~usable)
        /\ (pc[t] = "ex_post" /\ pc'[t] = "vt_start") =>
              /\ obs[t].exReq = 1
              /\ _access_token_cache'[h].present
              /\ _access_token_cache'[h].token = loc'[t].tok
              /\ \A k \in Hashes \ {h} : _access_token_cache'[k] = _access_token_cache[k]
      ]_vars

C10_Witness ==
    \E t \in Reqs :
        /\ pc[t] = "vt_start" /\ obs[t].atSrc = "cache" /\ obs[t].exReq = 0
        /\ loc[t].tok = _access_token_cache[loc[t].hash].token

\* At most one task is inside the critical section of the access-token cache.
C11_OneExchange ==
    \A t1, t2 \in Reqs : (Exchanging(t1) /\ Exchanging(t2)) => t1 = t2

\* A request that waited for the lock while another request exchanged the
\* same offline token, successfully and for a token living longer than the
\* buffer, gets that token and exchanges nothing.
C11_WaiterGetsExchanged ==
    \A t \in Reqs :
        (/\ pc[t] = "gat_check" /\ pc'[t] # "gat_check" /\ obs[t].exchange.seen
         /\ obs[t].exchange.expiry - obs[t].exchange.at > cfg.access_token_cache_buffer) =>
            /\ pc'[t] = "vt_start"
            /\ loc'[t].tok = obs[t].exchange.token
            /\ obs'[t].exReq = 0

\* The same, for a request that arrived before the exchanged token's expiry
\* minus the buffer.
C11_WaiterGetsExchangedInTime ==
    \A t \in Reqs :
        (/\ pc[t] = "gat_check" /\ pc'[t] # "gat_check" /\ obs[t].exchange.seen
         /\ loc[t].t_tok < obs[t].exchange.expiry - cfg.access_token_cache_buffer) =>
            /\ pc'[t] = "vt_start"
            /\ loc'[t].tok = obs[t].exchange.token
            /\ obs'[t].exReq = 0

\* C11 as stated: cache read, exchange and cache write are one critical
\* section, and of the concurrent requests presenting one offline token with
\* no usable entry cached, one exchanges and, when its exchange succeeds with
\* a token that outlives the buffer, the others get that token without an
\* exchange of their own.
C11_AsStated ==
    /\ []C11_OneExchange
    /\ [][C11_WaiterGetsExchanged]_vars

\* C11 amended: the others get the exchanged token when they arrived before
\* its expiry minus access_token_cache_buffer; one that arrived later
\* exchanges again.
C11_OneExchangePerToken ==
    /\ []C11_OneExchange
    /\ [][C11_WaiterGetsExchangedInTime]_vars

C11_Witness ==
    \E t \in Reqs :
        /\ pc[t] = "vt_start" /\ obs[t].exchange.seen
        /\ obs[t].atSrc = "cache" /\ obs[t].exReq = 0
        /\ loc[t].tok = obs[t].exchange.token

\* C12: a token is returned from the cache only while the clock is below the
\* entry's expiry minus access_token_cache_buffer, also to a caller that
\* waited for the lock.
C12_CachedTokenUsableNow ==
    [][\A t \in Reqs :
        (pc[t] = "gat_check" /\ pc'[t] = "vt_start") =>
            now < _access_token_cache[loc[t].hash].expiry - cfg.access_token_cache_buffer
      ]_vars

\* C13: a provider call that fails leaves the cache it was to refresh as it
\* was: a JWKS fetch that raises leaves key set and fetch time, a discovery
\* fetch that raises leaves the discovery entry and its time, an exchange
\* that fails leaves the access-token map.
C13_FailedCallLeavesCache ==
    [][\A t \in Reqs :
        /\ (pc[t] = "jw_get" /\ pc'[t] = "mw_result") =>
              UNCHANGED <<_jwks_cache, _jwks_cache_time>>
        /\ (pc[t] = "disc_get" /\ pc'[t] = "disc_ret" /\ loc'[t].exc # "none") =>
              UNCHANGED <<_oidc_config_cache, _oidc_config_cache_time>>
        /\ (pc[t] = "ex_post" /\ pc'[t] \in {"mw_result", "done"}) =>
              UNCHANGED _access_token_cache
      ]_vars

\* A JWKS retrieval made at time tau sends a request upstream: the key set is
\* not served from the cache, and a discovery document served from the cache
\* names the JWKS endpoint.
JwksGoesUpstream(tau) ==
    /\ ~JwksFresh(tau)
    /\ ConfigFresh(tau) => (IsDict(_oidc_config_cache) /\ HasJwksUri(_oidc_config_cache))

\* An exchange of the offline token with digest h asked for at time tau sends
\* a request upstream.
ExchangeGoesUpstream(h, tau) ==
    /\ ~TokenFresh(_access_token_cache[h], tau)
    /\ ConfigFresh(tau) => (IsDict(_oidc_config_cache) /\ HasTokenEndpoint(_oidc_config_cache))

\* C14: a failed refresh is not remembered: when a JWKS retrieval, a
\* discovery fetch or an exchange fails, its lock is released and the caches
\* are left such that a request needing the same data at any later time
\* goes upstream again.
C14_FailureNotRemembered ==
    [][\A t \in Reqs :
        /\ (/\ pc[t] = "jw_get" \/ (pc[t] = "disc_ret" /\ loc[t].disc_ret = "jw")
            /\ pc'[t] = "mw_result") =>
              /\ _lock'.holder # t
              /\ \A tau \in loc[t].t_jwks..MaxTime : JwksGoesUpstream(tau)'
        /\ (pc[t] = "disc_get" /\ pc'[t] = "disc_ret" /\ loc'[t].exc # "none") =>
              \A tau \in loc[t].t_disc..MaxTime : ~ConfigFresh(tau)'
        /\ (/\ pc[t] = "ex_post" \/ (pc[t] = "disc_ret" /\ loc[t].disc_ret = "ex")
            /\ pc'[t] \in {"mw_result", "done"}) =>
              /\ _token_cache_lock'.holder # t
              /\ \A tau \in loc[t].t_tok..MaxTime : ExchangeGoesUpstream(loc[t].hash, tau)'
      ]_vars

\* C15: a JWKS retrieval that finds the cached key set or discovery document
\* jwks_cache_ttl old or older and whose upstream fetch fails (no answer, a
\* non-2xx answer, or a body that is not a usable document) ends in 503
\* "Authentication service unavailable"; a cached value is returned only
\* while it is younger than jwks_cache_ttl.
C15_StaleFetchFailureIs503 ==
    [][\A t \in Reqs :
        /\ (/\ pc[t] = "jw_get" \/ (pc[t] = "disc_ret" /\ loc[t].disc_ret = "jw")
            /\ _jwks_cache # "None"
            /\ pc'[t] = "mw_result") =>
              loc'[t].result = Fail(Err("Authentication service unavailable", {}), 503)
        /\ (pc[t] = "jw_check" /\ pc'[t] = "vt_verify") =>
              /\ loc'[t].jwks = _jwks_cache
              /\ loc[t].t_jwks - _jwks_cache_time < cfg.jwks_cache_ttl
        /\ (pc[t] = "disc_start" /\ pc'[t] = "disc_ret") =>
              /\ loc'[t].doc = _oidc_config_cache
              /\ now - _oidc_config_cache_time < cfg.jwks_cache_ttl
      ]_vars

\* C16: on the offline-token path a failure while exchanging (the discovery
\* fetch for the token endpoint, the token endpoint itself, a response
\* without a usable access token) ends in 401 "Token exchange failed. Please
\* check your offline token.", and a discovery or JWKS failure while the
\* access token obtained is validated ends in 503 "Authentication service
\* unavailable".
C16_OfflinePhaseStatus ==
    [][\A t \in Reqs :
        /\ (/\ pc[t] = "ex_post" \/ (pc[t] = "disc_ret" /\ loc[t].disc_ret = "ex")
            /\ pc'[t] \in {"mw_result", "done"}) =>
              /\ pc'[t] = "mw_result"
              /\ loc'[t].result =
                    Fail(Err("Token exchange failed. Please check your offline token.", {}), 401)
        /\ (/\ obs[t].atSrc # "none"
            /\ pc[t] = "jw_get" \/ (pc[t] = "disc_ret" /\ loc[t].disc_ret = "jw")
            /\ pc'[t] = "mw_result") =>
              loc'[t].result = Fail(Err("Authentication service unavailable", {}), 503)
      ]_vars

\* Task t is inside validate_token.
Validating(t) ==
    \/ pc[t] \in {"vt_start", "jw_wait", "jw_check", "jw_get", "vt_verify"}
    \/ pc[t] \in {"disc_start", "disc_get", "disc_ret"} /\ loc[t].disc_ret = "jw"

\* Task t is inside _get_access_token_from_offline.
GettingAccessToken(t) ==
    \/ pc[t] \in {"gat_start", "gat_wait", "gat_check", "ex_post"}
    \/ pc[t] \in {"disc_start", "disc_get", "disc_ret"} /\ loc[t].disc_ret = "ex"

\* C17: a request carrying an offline token is authenticated only through
\* validate_token.  The access token got from the cache or from an exchange
\* is handed to validate_token in the same request, validate_token keeps that
\* token to the end, no authenticated result is returned while the access
\* token is still being obtained, and the result authenticate_request returns
\* comes from validate_token: when it is authenticated, the access token is
\* signed by a key of the key set in use, is not expired, names the configured
\* issuer and audience and grants the required scopes.
C17_OfflineThroughValidator ==
    [][\A t \in Reqs :
        /\ (obs[t].atSrc = "none" /\ obs'[t].atSrc # "none") =>
              /\ pc'[t] = "vt_start"
              /\ loc'[t].tok = _access_token_cache'[loc[t].hash].token
        /\ (GettingAccessToken(t) /\ pc'[t] = "mw_result") => ~loc'[t].result.authenticated
        /\ (obs[t].atSrc # "none" /\ Validating(t) /\ pc'[t] \notin {"mw_result", "done"}) =>
              /\ Validating(t)'
              /\ loc'[t].tok = loc[t].tok
        /\ (obs[t].atSrc # "none" /\ pc[t] # "mw_result" /\ pc'[t] = "mw_result") =>
              /\ Validating(t)
              /\ pc[t] = "vt_verify" =>
                    /\ loc'[t].result = VerifyToken(TokenInfo[loc[t].tok], loc[t].jwks, now, cfg)
                    /\ loc'[t].result.authenticated =>
                         LET ti == TokenInfo[loc[t].tok]
                             keys == JwksKeys(loc[t].jwks)
                         IN  /\ \E i \in 1..Len(keys) : keys[i].kid = ti.signed_by
                             /\ ti.exp > now
                             /\ ti.iss = cfg.issuer_url
                             /\ ti.aud = cfg.client_id
                             /\ SeqToSet(cfg.required_scopes) \subseteq SeqToSet(Split(ti.scope))
                             /\ loc'[t].result.user_id = ti.sub
              /\ pc[t] # "vt_verify" => ~loc'[t].result.authenticated
      ]_vars

\* An offline-token request served from the access-token cache was validated
\* against a key set and forwarded.
C17_Witness ==
    \E t \in Reqs :
        /\ obs[t].atSrc = "cache"
        /\ obs[t].jwSrc # "none"
        /\ obs[t].outcome = "forwarded"
        /\ obs[t].appUser.present

\* The request of task t carries, in a well-formed Bearer header, a token
\* that the classifier takes for an offline token.
PresentsOfflineToken(t) ==
    LET ex == _extract_token_from_header(req[t].header.text) IN
    /\ MustAuthenticate(t)
    /\ req[t].header.utf8
    /\ ex.error = "None"
    /\ ~_is_access_token(ex.token)

\* C18: with offline_token_enabled false, a bearer token classified offline,
\* and every token without exactly 3 segments is one, is rejected with 401
\* "Invalid token format. Expected JWT access token."; no token exchange is
\* attempted and the access-token cache is not written.
C18_OfflineDisabledRejects ==
    ~cfg.offline_token_enabled =>
        /\ \A h \in Hashes : _access_token_cache[h] = NoEntry
        /\ \A t \in Reqs :
            LET ex == _extract_token_from_header(req[t].header.text) IN
            /\ obs[t].exReq = 0
            /\ obs[t].atSrc = "none"
            /\ ~GettingAccessToken(t)
            /\ (/\ MustAuthenticate(t) /\ req[t].header.utf8 /\ ex.error = "None"
                /\ TokenInfo[ex.token].segs # 3) => PresentsOfflineToken(t)
            /\ PresentsOfflineToken(t) =>
                /\ ~Validating(t)
                /\ ProviderCalls(t) = 0
                /\ pc[t] = "mw_result" =>
                     loc[t].result =
                        Fail(Err("Invalid token format. Expected JWT access token.", {}), 401)
                /\ pc[t] = "done" =>
                     /\ obs[t].outcome = "rejected"
                     /\ obs[t].appCalls = 0
                     /\ obs[t].response.status_code = 401
                     /\ obs[t].response.message =
                           Err("Invalid token format. Expected JWT access token.", {})

\* An opaque token and a 3-segment token with payload typ Offline have been
\* rejected with offline support disabled.
C18_Witness ==
    \E t \in Reqs :
        /\ ~cfg.offline_token_enabled
        /\ PresentsOfflineToken(t)
        /\ _extract_token_from_header(req[t].header.text).token = "off1"
        /\ pc[t] = "done"
        /\ obs[t].outcome = "rejected"
        /\ obs[t].response.status_code = 401

\* C19: the classifier's rules apply in fixed precedence.  For a 3-segment
\* token whose payload inspection yields a typ: Offline or Refresh in any
\* letter case gives offline, Bearer in any letter case gives access token,
\* both whatever the header typ and whatever offline_token_enabled.  When the
\* payload is undecodable or its typ is absent or another value, the header
\* typ is consulted, and one containing REFRESH or equal to RT, letter case
\* aside, gives offline.
C19_ClassifierPrecedence ==
    LET ti == call.token
        payloadTyp == ti.hdr_ok /\ ti.pl_ok /\ ti.pl_typ_str
        offlineTyps == {T_Offline, T_offline_lc, <<"O", "F", "F", "L", "I", "N", "E">>,
                        T_Refresh, T_refresh_lc, <<"R", "E", "F", "R", "E", "S", "H">>}
        bearerTyps == {T_Bearer, T_bearer_lc, <<"B", "E", "A", "R", "E", "R">>}
        refreshHeaders == {T_Refresh, T_refresh_lc, <<"R", "E", "F", "R", "E", "S", "H">>,
                           T_refresh_jwt, T_RT, T_rt_lc}
    IN  (call.fn = "_is_access_token" /\ call.done /\ ti.segs = 3) =>
            /\ (payloadTyp /\ ti.pl_typ \in offlineTyps) => ~call.ret
            /\ (payloadTyp /\ ti.pl_typ \in bearerTyps) => call.ret
            /\ (/\ ~(payloadTyp /\ ti.pl_typ \in offlineTyps \cup bearerTyps)
                /\ ti.hdr_ok /\ ti.hdr_typ_str
                /\ ti.hdr_typ \in refreshHeaders) => ~call.ret

\* A token with payload typ Bearer and header typ Refresh was classified an
\* access token with offline support enabled.
C19_Witness ==
    /\ call.fn = "_is_access_token" /\ call.done
    /\ call.token.segs = 3 /\ call.token.hdr_ok /\ call.token.pl_ok
    /\ call.token.pl_typ = T_Bearer
    /\ call.token.hdr_typ = T_Refresh
    /\ cfg.offline_token_enabled
    /\ call.ret

\* C20 as stated: for a 3-segment token on which payload and header
\* inspection are both inconclusive (decode failure, or typ absent or of
\* another value), the classifier returns offline when offline_token_enabled
\* is true and access token otherwise.
C20_AsStated ==
    LET ti == call.token
        payloadSays == /\ ti.hdr_ok /\ ti.pl_ok /\ ti.pl_typ_str
                       /\ ti.pl_typ \in {T_Offline, T_offline_lc, <<"O", "F", "F", "L", "I", "N", "E">>,
                                         T_Refresh, T_refresh_lc, <<"R", "E", "F", "R", "E", "S", "H">>,
                                         T_Bearer, T_bearer_lc, <<"B", "E", "A", "R", "E", "R">>}
        headerSays == /\ ti.hdr_ok /\ ti.hdr_typ_str
                      /\ ti.hdr_typ \in {T_Refresh, T_refresh_lc, <<"R", "E", "F", "R", "E", "S", "H">>,
                                         T_refresh_jwt, T_RT, T_rt_lc}
    IN  (call.fn = "_is_access_token" /\ call.done /\ ti.segs = 3 /\ ~payloadSays /\ ~headerSays) =>
            (call.ret <=> ~cfg.offline_token_enabled)

\* C20: for a 3-segment token whose header decodes with a typ that is absent
\* or a string neither containing REFRESH nor equal to RT, and whose payload
\* inspection is inconclusive, the classifier returns offline when
\* offline_token_enabled is true and access token otherwise; when the header
\* does not decode or its typ is not a string, and the payload inspection is
\* inconclusive, it returns offline for every configuration.
C20_DefaultClassification ==
    LET ti == call.token
        payloadSays == /\ ti.hdr_ok /\ ti.pl_ok /\ ti.pl_typ_str
                       /\ ti.pl_typ \in {T_Offline, T_offline_lc, <<"O", "F", "F", "L", "I", "N", "E">>,
                                         T_Refresh, T_refresh_lc, <<"R", "E", "F", "R", "E", "S", "H">>,
                                         T_Bearer, T_bearer_lc, <<"B", "E", "A", "R", "E", "R">>}
        headerReads == ti.hdr_ok /\ ti.hdr_typ_str
        headerSays == /\ headerReads
                      /\ ti.hdr_typ \in {T_Refresh, T_refresh_lc, <<"R", "E", "F", "R", "E", "S", "H">>,
                                         T_refresh_jwt, T_RT, T_rt_lc}
    IN  (call.fn = "_is_access_token" /\ call.done /\ ti.segs = 3 /\ ~payloadSays) =>
            /\ (headerReads /\ ~headerSays) => (call.ret <=> ~cfg.offline_token_enabled)
            /\ ~headerReads => ~call.ret

\* With offline support disabled, a 3-segment token whose header does not
\* decode was classified offline.
C20_Witness ==
    /\ call.fn = "_is_access_token" /\ call.done
    /\ call.token.segs = 3
    /\ ~call.token.hdr_ok
    /\ ~cfg.offline_token_enabled
    /\ ~call.ret

\* C21: a 3-segment token whose JWT header cannot be decoded is classified
\* offline, also when offline_token_enabled is false, and a token that does
\* not have exactly 3 dot-separated segments is classified offline for every
\* configuration.
C21_UndecodableIsOffline ==
    call.fn = "_is_access_token" /\ call.done =>
        /\ (call.token.segs = 3 /\ ~call.token.hdr_ok) => ~call.ret
        /\ call.token.segs # 3 => ~call.ret

\* With offline support disabled, a 3-segment token whose header does not
\* decode and whose payload segment holds typ Bearer was classified offline.
C21_Witness ==
    /\ call.fn = "_is_access_token" /\ call.done
    /\ call.token.segs = 3
    /\ ~call.token.hdr_ok
    /\ call.token.pl_ok /\ call.token.pl_typ = T_Bearer
    /\ ~cfg.offline_token_enabled
    /\ cfg.enabled
    /\ ~call.ret

MalformedHeader(t) ==
    /\ MustAuthenticate(t)
    /\ \/ ~req[t].header.utf8
       \/ _extract_token_from_header(req[t].header.text).error # "None"

\* C23: a request whose Authorization header is missing or malformed is
\* answered with status 401 carrying the extraction error, with no discovery,
\* JWKS or token-endpoint call and with the JWKS, discovery and access-token
\* caches left unchanged.
C23_MalformedHeaderIs401 ==
    /\ [](\A t \in Reqs :
            MalformedHeader(t) =>
                /\ ProviderCalls(t) = 0
                /\ pc[t] = "done" =>
                     /\ obs[t].outcome = "rejected"
                     /\ obs[t].respSent = 1 /\ obs[t].appCalls = 0
                     /\ obs[t].response.status_code = 401
                     /\ obs[t].response.message =
                           Err(_extract_token_from_header(req[t].header.text).error, {}))
    /\ [][\A t \in Reqs :
            (MalformedHeader(t) /\ pc[t] # "idle") => UNCHANGED caches]_vars

\* C24: should_skip_auth(p) is true if and only if some configured skip
\* prefix is an initial piece of p, character by character (no glob, no
\* path-segment matching); with the defaults /health and /security,
\* /health/live is skipped and /mcp is not.
C24_SkipIffPrefix ==
    LET q == call.path
        S == cfg.skip_paths
        prefixOf(a) == /\ Len(a) <= Len(q)
                       /\ \A i \in 1..Len(a) : a[i] = q[i]
    IN  (call.fn = "should_skip_auth" /\ call.done) =>
            /\ call.ret <=> \E k \in 1..Len(S) : prefixOf(S[k])
            /\ S = <<P_health, P_security>> =>
                  /\ q = P_health_live => call.ret
                  /\ q = P_mcp => ~call.ret

\* With the default skip paths, /healthz (no segment matching) was skipped.
C24_Witness ==
    /\ call.fn = "should_skip_auth"
    /\ call.done
    /\ cfg.skip_paths = <<P_health, P_security>>
    /\ call.path = P_healthz
    /\ call.ret

\* C25: validate_token returns authenticated=true only if every element of
\* required_scopes is among the words of the token's scope claim; when
\* required_scopes is non-empty and some element is not granted, the result
\* is authenticated=false, and for a token that passed verification it has
\* status 403 and an error naming exactly the missing scopes.
C25_RequiredScopes ==
    LET ti == call.token
        granted == IF ti.scope_is_str
                   THEN { ti.scope[i] : i \in { j \in 1..Len(ti.scope) : ti.scope[j] # WS } }
                   ELSE {}
        required == { cfg.required_scopes[i] : i \in 1..Len(cfg.required_scopes) }
        verified == /\ call.fetched = "K1"
                    /\ ti.hdr_ok /\ ti.pl_ok /\ ti.kid = "k1" /\ ti.signed_by = "k1"
                    /\ ti.alg = "RS256" /\ ti.exp > now
                    /\ ti.iss = cfg.issuer_url /\ ti.aud = cfg.client_id
    IN  (call.fn = "validate_token" /\ call.done) =>
            /\ call.result.authenticated => required \subseteq granted
            /\ (required \ granted # {}) =>
                  /\ ~call.result.authenticated
                  /\ verified =>
                        /\ call.result.status_code = 403
                        /\ call.result.error = Err("Missing required scopes", required \ granted)
            /\ (verified /\ required \subseteq granted) =>
                  /\ call.result.authenticated
                  /\ { call.result.scopes[i] : i \in 1..Len(call.result.scopes) } = granted

\* With admin and write required, a sound token granting openid and profile
\* was refused with 403 naming both.
C25_Witness ==
    /\ call.fn = "validate_token"
    /\ call.done
    /\ cfg.required_scopes = <<"admin", "write">>
    /\ call.token = [BaseToken EXCEPT !.scope = <<"openid", WS, "profile">>]
    /\ call.fetched = "K1"
    /\ call.result.status_code = 403
    /\ call.result.error = Err("Missing required scopes", {"admin", "write"})

\* C26: each way verification can fail has its own outcome.  With a key set
\* fetched: a token with no usable signing key gives 401 "Invalid token
\* signature"; a token whose only fault is its expiry gives 401 "Token has
\* expired", its audience 401 "Invalid token audience", its issuer 401
\* "Invalid token issuer"; a bad algorithm, signature or payload gives 401
\* "Invalid token" with a detail.  A key set that is not an object gives 500
\* "Internal authentication error".  503 is returned exactly when _fetch_jwks
\* raised, whatever the token, so no faulty token is answered 503 on a
\* fetched key set and no failed fetch is answered 401.
C26_FailureOutcomes ==
    LET ti == call.token
        f == call.fetched
        r == call.result
        kids == IF f = "K1" THEN {"k1"} ELSE IF f = "K2" THEN {"k2"} ELSE {}
        keyUsable == ti.hdr_ok /\ (ti.kid \in kids \/ ti.alg \in {"RS256", "RS384", "RS512"})
        signedOk == /\ keyUsable /\ ti.alg = "RS256" /\ ti.signed_by \in kids /\ ti.pl_ok
        expired == ti.exp <= now
        wrongIss == ti.iss # cfg.issuer_url
        wrongAud == ti.aud # cfg.client_id
        msg(m) == Fail(Err(m, {}), 401)
    IN  (call.fn = "validate_token" /\ call.done) =>
            /\ (r.status_code = 503) <=> (f = "RuntimeError")
            /\ f = "RuntimeError" => r = Fail(Err("Authentication service unavailable", {}), 503)
            /\ (f = "K_list" /\ ti.hdr_ok) =>
                  r = Fail(Err("Internal authentication error", {}), 500)
            /\ r.status_code = 500 => f = "K_list"
            /\ (f \in {"K1", "K2"} /\ ~keyUsable) => r = msg("Invalid token signature")
            /\ (f \in {"K1", "K2"} /\ keyUsable /\ ~signedOk) =>
                  /\ r.status_code = 401 /\ ~r.authenticated
                  /\ r.error.msg = "Invalid token" /\ r.error.detail # {}
            /\ (f \in {"K1", "K2"} /\ signedOk) =>
                  /\ (expired /\ ~wrongIss /\ ~wrongAud) => r = msg("Token has expired")
                  /\ (~expired /\ wrongIss /\ ~wrongAud) => r = msg("Invalid token issuer")
                  /\ (~expired /\ ~wrongIss /\ wrongAud) => r = msg("Invalid token audience")
                  /\ (expired \/ wrongIss \/ wrongAud) =>
                        \/ expired /\ r = msg("Token has expired")
                        \/ wrongIss /\ r = msg("Invalid token issuer")
                        \/ wrongAud /\ r = msg("Invalid token audience")
                  /\ ~(expired \/ wrongIss \/ wrongAud) => r.status_code \in {200, 403}

\* A token with an unknown kid and an algorithm no key serves was answered
\* 401 "Invalid token signature" on a fetched key set.
C26_Witness ==
    /\ call.fn = "validate_token"
    /\ call.done
    /\ call.fetched = "K1"
    /\ call.token.kid = "kx" /\ call.token.alg = "ES256"
    /\ call.result = Fail(Err("Invalid token signature", {}), 401)

\* C27: every AuthResult returned by authenticate_request, those of
\* validate_token among them, has a status code in {200, 401, 403, 500, 503};
\* authenticated is true exactly when the status code is 200; a result that
\* is not authenticated has a non-empty error and no identity (no user id,
\* username or email, no groups, no scopes); an authenticated result has no
\* error.
C27_AuthResultShape ==
    \A t \in Reqs :
        pc[t] = "mw_result" =>
            LET r == loc[t].result IN
            /\ r.status_code \in {200, 401, 403, 500, 503}
            /\ r.authenticated <=> r.status_code = 200
            /\ ~r.authenticated =>
                  /\ r.error.msg \notin {"None", ""}
                  /\ r.user_id = "None" /\ r.username = "None" /\ r.email = "None"
                  /\ r.groups = <<>> /\ r.scopes = <<>>
            /\ r.authenticated => r.error = Err("None", {})

\* authenticate_request has returned 503 for a request whose token reached
\* validate_token.
C27_Witness ==
    \E t \in Reqs :
        /\ pc[t] = "mw_result"
        /\ loc[t].result.status_code = 503
        /\ ~loc[t].result.authenticated
        /\ obs[t].discReq + obs[t].jwksReq > 0

\* The keys of the access-token cache are digests of the offline tokens,
\* never a token itself, and no cache holds an offline token as a value.
CachesHoldNoOfflineToken ==
    /\ \A h \in DOMAIN _access_token_cache :
          _access_token_cache[h].present =>
             /\ h \notin TokenNames
             /\ h \in {"sha256:5f1c", "sha256:a07e"}
             /\ _access_token_cache[h].token \notin {"off1", "off2"}
    /\ _jwks_cache \notin {"off1", "off2"}
    /\ _oidc_config_cache \notin {"off1", "off2"}

\* C28: every key of the access-token cache is the SHA-256 digest of an
\* offline token that was presented, and no offline token is a key or a
\* stored value of a cache; an entry is created or overwritten only by a
\* successful exchange, under the digest of the token of the request that
\* exchanged, and is never removed.
C28_CacheKeysAreDigests ==
    [][/\ CachesHoldNoOfflineToken'
       /\ _access_token_cache' # _access_token_cache =>
            \A h \in DOMAIN _access_token_cache :
               /\ _access_token_cache[h].present => _access_token_cache'[h].present
               /\ _access_token_cache'[h] # _access_token_cache[h] =>
                     \E t \in Reqs :
                         LET ex == _extract_token_from_header(req[t].header.text) IN
                         /\ pc[t] = "ex_post" /\ pc'[t] = "vt_start"
                         /\ obs'[t].atSrc = "exchange"
                         /\ ex.error = "None"
                         /\ ex.token \in {"off1", "off2"}
                         /\ h = (IF ex.token = "off1" THEN "sha256:5f1c" ELSE "sha256:a07e")
                         /\ _access_token_cache'[h].token = loc'[t].tok
      ]_vars

\* Both offline tokens have been exchanged: their digests, and only they,
\* are keys of the access-token cache.
C28_Witness ==
    /\ _access_token_cache["sha256:5f1c"].present
    /\ _access_token_cache["sha256:a07e"].present
    /\ \A h \in DOMAIN _access_token_cache :
          _access_token_cache[h].present => h \in {"sha256:5f1c", "sha256:a07e"}

\* C29: the authenticator of a middleware carries the offline-token settings
\* it was built from, also when create_auth_middleware built it from
\* config.oidc: when those settings have offline_token_enabled true, a request
\* that presents an offline token finds the authenticator's
\* offline_token_enabled and access_token_cache_buffer equal to them, and its
\* result is not the 401 "Invalid token format. Expected JWT access token.".
C29_LoadedOfflineSettingsUsed ==
    \A t \in Reqs :
        (/\ pc[t] \in {"mw_result", "done"}
         /\ config_oidc.enabled /\ config_oidc.offline_token_enabled
         /\ PresentsOfflineToken(t)) =>
            /\ cfg.offline_token_enabled = config_oidc.offline_token_enabled
            /\ cfg.access_token_cache_buffer = config_oidc.access_token_cache_buffer
            /\ pc[t] = "mw_result" =>
                 loc[t].result #
                    Fail(Err("Invalid token format. Expected JWT access token.", {}), 401)
            /\ pc[t] = "done" =>
                 obs[t].response.message #
                    Err("Invalid token format. Expected JWT access token.", {})

\* The tasks between which task t may stand while it holds a lock.
InJwksLock(t) ==
    \/ pc[t] \in {"jw_check", "jw_get"}
    \/ pc[t] \in {"disc_start", "disc_get", "disc_ret"} /\ loc[t].disc_ret = "jw"
InTokenLock(t) ==
    \/ pc[t] \in {"gat_check", "ex_post"}
    \/ pc[t] \in {"disc_start", "disc_get", "disc_ret"} /\ loc[t].disc_ret = "ex"

\* No task holds or awaits one lock while it holds the other, a lock is held
\* only inside its `async with` block, and a task outside every block, in
\* particular one whose call has returned or raised, holds and awaits none.
LockDiscipline ==
    \A t \in Tasks :
        /\ ~(_lock.holder = t /\ _token_cache_lock.holder = t)
        /\ _lock.holder = t => t \notin SeqToSet(_token_cache_lock.waiters)
        /\ _token_cache_lock.holder = t => t \notin SeqToSet(_lock.waiters)
        /\ _lock.holder = t <=> InJwksLock(t)
        /\ _token_cache_lock.holder = t <=> InTokenLock(t)
        /\ t \in SeqToSet(_lock.waiters) <=> pc[t] = "jw_wait"
        /\ t \in SeqToSet(_token_cache_lock.waiters) <=> pc[t] = "gat_wait"

\* C30: no task ever holds the JWKS lock and the access-token cache lock
\* together, and each lock is released on every way out of its block, a
\* failure included; so, when the loop is fair and every provider call
\* completes, every authenticate_request call that was made ends: it returns
\* its result to the middleware or, for the bodies that make it raise, its
\* exception leaves it.
C30_LocksAndTermination ==
    /\ []LockDiscipline
    /\ \A t \in Reqs : (pc[t] = "auth") ~> (pc[t] \in {"mw_result", "done"})

\* One task holds the JWKS lock awaiting the key set while the other holds
\* the access-token cache lock awaiting the token endpoint.
C30_Witness ==
    \E t, u \in Reqs :
        /\ t # u
        /\ _lock.holder = t /\ pc[t] = "jw_get"
        /\ _token_cache_lock.holder = u /\ pc[u] = "ex_post"

====
